---- MODULE Spec2Model ----
(***************************************************************************)
(* Model of the catalogue validators APP_CATALOG.py (session with cookies) *)
(* and APP_Catalog.py (v2, headless-browser fallback).                     *)
(*                                                                         *)
(* Text is modelled as a sequence of characters, each character a string   *)
(* token.  ASCII characters stand for themselves; the characters outside   *)
(* ASCII that the programs mention are written by name: "rsaquo" (U+203A), *)
(* "raquo" (U+00BB), "bull" (U+2022), "u_acute" (U+00FA).  The cell value  *)
(* of the column Catalogado that means yes is written "Si".                *)
(***************************************************************************)
EXTENDS Naturals, Integers, Sequences, FiniteSets, TLC

VARIABLES
    \* ---- a run of one of the two programs (specification Spec) ----
    variant,        \* the program that runs: "APP_CATALOG" or "APP_Catalog"
    raw,            \* the lines of the text area
    use_playwright, \* the toggle of APP_Catalog.py
    domain,         \* the site chosen in the select box of APP_Catalog.py
    pc,             \* where the script is
    skus,           \* the identifiers of the run
    idx,            \* the index in skus of the identifier being processed
    results,        \* the rows so far
    sku_cands,      \* analyze_sku: the candidates of the identifier
    ci,             \* analyze_sku: the index of the candidate being tried
    pending,        \* the URLs still to open for the candidate
    sess,           \* the session in use (0: none yet)
    nsess,          \* sessions created while processing the identifier
    gets,           \* per GET issued for the identifier: its session and its candidate
    renders,        \* per call of get_html_with_playwright for the identifier: its candidate,
                    \* whether every primary fetch so far gave no content, and whether
                    \* content came back although the rendering failed
    starved,        \* every primary fetch for the identifier returned no content
    hist,           \* per row: the lists and flags analyze_sku computed for it
    \* ---- function-level harness (specification SpecUnit) ----
    u_fn,      \* the function under call
    u_arg,     \* its argument
    u_ret,     \* its last result
    u_prev,    \* the result of the call before the last one
    u_calls    \* how many times it has been applied

rvars == <<variant, raw, use_playwright, domain, pc, skus, idx, results, sku_cands, ci,
           pending, sess, nsess, gets, renders, starved, hist>>
uvars == <<u_fn, u_arg, u_ret, u_prev, u_calls>>
vars == <<rvars, uvars>>

(***************************************************************************)
(* Bounds of the model.                                                    *)
(***************************************************************************)
MaxCrumbs == 4
MaxLines == 2
MaxCatLen == 4

(***************************************************************************)
(* Python str primitives.                                                  *)
(***************************************************************************)
UpperChars == <<"A","B","C","D","E","F","G","H","I","J","K","L","M",
                "N","O","P","Q","R","S","T","U","V","W","X","Y","Z","U_acute">>
LowerChars == <<"a","b","c","d","e","f","g","h","i","j","k","l","m",
                "n","o","p","q","r","s","t","u","v","w","x","y","z","u_acute">>

\* str.isspace for one character
IsSpace(c) == c \in {" ", "\t", "\n"}

\* str.lower for one character
LowerChar(c) ==
    IF \E i \in 1..Len(UpperChars) : UpperChars[i] = c
    THEN LowerChars[CHOOSE i \in 1..Len(UpperChars) : UpperChars[i] = c]
    ELSE c

\* str.lower()
Lower(s) == [i \in 1..Len(s) |-> LowerChar(s[i])]

RECURSIVE LStrip(_)
LStrip(s) == IF s # <<>> /\ IsSpace(Head(s)) THEN LStrip(Tail(s)) ELSE s

RECURSIVE RStrip(_)
RStrip(s) ==
    IF s # <<>> /\ IsSpace(s[Len(s)]) THEN RStrip(SubSeq(s, 1, Len(s) - 1)) ELSE s

\* str.strip()
Strip(s) == RStrip(LStrip(s))

\* sub in s
Contains(s, sub) ==
    \E i \in 1..(Len(s) - Len(sub) + 1) : SubSeq(s, i, i + Len(sub) - 1) = sub

\* index of the first occurrence of character c in s, 0 when absent
FirstIndex(s, c) ==
    IF \E i \in 1..Len(s) : s[i] = c
    THEN CHOOSE i \in 1..Len(s) : s[i] = c /\ \A j \in 1..(i - 1) : s[j] # c
    ELSE 0

\* s.split(c) for a one-character separator c
RECURSIVE Split(_, _)
Split(s, c) ==
    LET k == FirstIndex(s, c)
    IN  IF k = 0 THEN <<s>>
        ELSE <<SubSeq(s, 1, k - 1)>> \o Split(SubSeq(s, k + 1, Len(s)), c)

\* sep.join(parts)
RECURSIVE Join(_, _)
Join(sep, parts) ==
    IF parts = <<>> THEN <<>>
    ELSE IF Len(parts) = 1 THEN parts[1]
    ELSE parts[1] \o sep \o Join(sep, Tail(parts))

Range(f) == {f[i] : i \in DOMAIN f}

\* the sequences over S of length at most n
RECURSIVE SeqsUpTo(_, _)
SeqsUpTo(S, n) ==
    IF n = 0 THEN {<<>>}
    ELSE LET shorter == SeqsUpTo(S, n - 1)
         IN  shorter \cup {Append(q, x) : q \in shorter, x \in S}

(***************************************************************************)
(* Program constants.                                                      *)
(***************************************************************************)
\* HOME_NOISE
HOME_NOISE ==
    { <<"h","o","m","e">>, <<"i","n","i","c","i","o">>,
      <<"b","u_acute","s","q","u","e","d","a">>,
      <<"b","u","s","q","u","e","d","a">>,
      <<"r","e","s","u","l","t","a","d","o","s">>,
      <<"s","e","a","r","c","h">>, <<"r","e","s","u","l","t","s">> }

\* the separator glyphs dropped by the cleaners
SeparatorGlyphs == { <<">">>, <<"/">>, <<"|">>, <<"rsaquo">>, <<"raquo">>, <<"bull">> }

\* the alternatives of MISC_PAT
MiscWords ==
    { <<"o","t","r","o","s">>, <<"m","i","s","c","e","l">>,
      <<"v","a","r","i","o","s">>, <<"v","a","r","i","e","d","a","d">>,
      <<"o","t","r","o","s"," ","p","r","o","d","u","c","t","o","s">> }

\* MISC_PAT.search(c): some alternative occurs in c, letter case ignored
MISC_PAT_search(c) == \E w \in MiscWords : Contains(Lower(c), w)

\* Python's None among the labels of a list
None == <<"<None>">>

(***************************************************************************)
(* candidate_skus                                                          *)
(***************************************************************************)
\* a variant of candidate_skus that keeps the prefix as it stands, not trimmed
candidate_skus_untrimmed_base(s0) ==
    LET s == Strip(s0)
        cands == <<s>>
    IN  IF Contains(s, <<"-">>)
        THEN LET base == Split(s, "-")[1]
             IN  IF base # <<>> /\ base \notin Range(cands)
                 THEN Append(cands, base)
                 ELSE cands
        ELSE cands

candidate_skus(s0) ==
    LET s == Strip(s0)
        cands == <<s>>
    IN  IF Contains(s, <<"-">>)
        THEN LET base == Strip(Split(s, "-")[1])
             IN  IF base # <<>> /\ base \notin Range(cands)
                 THEN Append(cands, base)
                 ELSE cands
        ELSE cands

(***************************************************************************)
(* normalize_crumbs, is_catalogado_from_limpios                            *)
(***************************************************************************)
\* a variant of the loop that compares a label with the item before it in
\* the raw list rather than with the last label kept
RECURSIVE normalize_loop_prev_raw(_, _, _, _)
normalize_loop_prev_raw(raw_crumbs, i, cleaned, had_any) ==
    IF i > Len(raw_crumbs) THEN [cleaned |-> cleaned, had_any |-> had_any]
    ELSE LET c == raw_crumbs[i]
             t == Strip(c)
         IN  IF c = None THEN normalize_loop_prev_raw(raw_crumbs, i + 1, cleaned, had_any)
             ELSE IF t = <<>> THEN normalize_loop_prev_raw(raw_crumbs, i + 1, cleaned, had_any)
             ELSE IF t \in SeparatorGlyphs THEN normalize_loop_prev_raw(raw_crumbs, i + 1, cleaned, TRUE)
             ELSE IF Lower(t) \in HOME_NOISE THEN normalize_loop_prev_raw(raw_crumbs, i + 1, cleaned, TRUE)
             ELSE IF i = 1 \/ Strip(raw_crumbs[i - 1]) # t
                  THEN normalize_loop_prev_raw(raw_crumbs, i + 1, Append(cleaned, t), TRUE)
                  ELSE normalize_loop_prev_raw(raw_crumbs, i + 1, cleaned, TRUE)

\* a variant of the loop that tests the label as given, not trimmed, against HOME_NOISE
RECURSIVE normalize_loop_untrimmed_noise(_, _, _, _)
normalize_loop_untrimmed_noise(raw_crumbs, i, cleaned, had_any) ==
    IF i > Len(raw_crumbs) THEN [cleaned |-> cleaned, had_any |-> had_any]
    ELSE LET c == raw_crumbs[i]
             t == Strip(c)
         IN  IF c = None THEN normalize_loop_untrimmed_noise(raw_crumbs, i + 1, cleaned, had_any)
             ELSE IF t = <<>> THEN normalize_loop_untrimmed_noise(raw_crumbs, i + 1, cleaned, had_any)
             ELSE IF t \in SeparatorGlyphs THEN normalize_loop_untrimmed_noise(raw_crumbs, i + 1, cleaned, TRUE)
             ELSE IF Lower(c) \in HOME_NOISE THEN normalize_loop_untrimmed_noise(raw_crumbs, i + 1, cleaned, TRUE)
             ELSE IF cleaned = <<>> \/ cleaned[Len(cleaned)] # t
                  THEN normalize_loop_untrimmed_noise(raw_crumbs, i + 1, Append(cleaned, t), TRUE)
                  ELSE normalize_loop_untrimmed_noise(raw_crumbs, i + 1, cleaned, TRUE)

\* the loop of normalize_crumbs from item i on, with the locals cleaned, had_any
RECURSIVE normalize_loop(_, _, _, _)
normalize_loop(raw_crumbs, i, cleaned, had_any) ==
    IF i > Len(raw_crumbs) THEN [cleaned |-> cleaned, had_any |-> had_any]
    ELSE LET c == raw_crumbs[i]
             t == Strip(c)
         IN  IF c = None THEN normalize_loop(raw_crumbs, i + 1, cleaned, had_any)
             ELSE IF t = <<>> THEN normalize_loop(raw_crumbs, i + 1, cleaned, had_any)
             ELSE IF t \in SeparatorGlyphs THEN normalize_loop(raw_crumbs, i + 1, cleaned, TRUE)
             ELSE IF Lower(t) \in HOME_NOISE THEN normalize_loop(raw_crumbs, i + 1, cleaned, TRUE)
             ELSE IF cleaned = <<>> \/ cleaned[Len(cleaned)] # t
                  THEN normalize_loop(raw_crumbs, i + 1, Append(cleaned, t), TRUE)
                  ELSE normalize_loop(raw_crumbs, i + 1, cleaned, TRUE)

normalize_crumbs(raw_crumbs) ==
    LET r == normalize_loop(raw_crumbs, 1, <<>>, FALSE)
    IN  [cleaned |-> r.cleaned, only_noise |-> (Len(r.cleaned) = 0 /\ r.had_any)]

\* a variant of is_catalogado_from_limpios that accepts a single level
is_catalogado_one_level(crumbs_limpios) ==
    IF Len(crumbs_limpios) < 1 THEN FALSE
    ELSE IF \E i \in 1..Len(crumbs_limpios) : MISC_PAT_search(crumbs_limpios[i]) THEN FALSE
    ELSE TRUE

is_catalogado_from_limpios(crumbs_limpios) ==
    IF Len(crumbs_limpios) < 2 THEN FALSE
    ELSE IF \E i \in 1..Len(crumbs_limpios) : MISC_PAT_search(crumbs_limpios[i]) THEN FALSE
    ELSE TRUE

(***************************************************************************)
(* JSON values as json.loads returns them.  A value is a record with its   *)
(* Python type t and its content v; a dict is the sequence of its          *)
(* <<key, value>> pairs in document order.                                 *)
(***************************************************************************)
JNull == [t |-> "null", v |-> <<>>]
JStr(s) == [t |-> "str", v |-> s]
JNum(n) == [t |-> "num", v |-> n]
JList(l) == [t |-> "list", v |-> l]
JDict(pairs) == [t |-> "dict", v |-> pairs]

\* k in d
HasKey(d, k) == \E i \in 1..Len(d.v) : d.v[i][1] = k

\* d.get(k)
Get(d, k) ==
    IF HasKey(d, k)
    THEN d.v[CHOOSE i \in 1..Len(d.v) : d.v[i][1] = k /\ \A j \in (i + 1)..Len(d.v) : d.v[j][1] # k][2]
    ELSE JNull

\* bool(x)
Truthy(x) ==
    CASE x.t = "null" -> FALSE
      [] x.t = "num" -> x.v # 0
      [] OTHER -> x.v # <<>>

\* x == "literal" for a JSON value x
IsStr(x, lit) == x.t = "str" /\ x.v = lit

\* what `for it in x` visits, or a TypeError for a value that is not iterable
Iterate(x) ==
    CASE x.t = "list" -> [raised |-> FALSE, items |-> x.v]
      [] x.t = "dict" -> [raised |-> FALSE, items |-> [i \in 1..Len(x.v) |-> JStr(<<x.v[i][1]>>)]]
      [] x.t = "str" -> [raised |-> FALSE, items |-> [i \in 1..Len(x.v) |-> JStr(<<x.v[i]>>)]]
      [] OTHER -> [raised |-> TRUE, items |-> <<>>]

T_BreadcrumbList == <<"B","r","e","a","d","c","r","u","m","b","L","i","s","t">>
T_ItemList == <<"I","t","e","m","L","i","s","t">>
T_Product == <<"P","r","o","d","u","c","t">>
T_IndividualProduct == <<"I","n","d","i","v","i","d","u","a","l">> \o T_Product

\* the labels both programs drop as the home crumb
HomeWords == { <<"h","o","m","e">>, <<"i","n","i","c","i","o">> }

(***************************************************************************)
(* Results of a call that may raise: st is "ret" (val is the value         *)
(* returned), "raise" (an exception left the function) or, inside a loop,  *)
(* "next" (nothing found yet).                                             *)
(***************************************************************************)
Ret(x) == [st |-> "ret", val |-> x]
Raise == [st |-> "raise", val |-> <<>>]
Nothing == [st |-> "next", val |-> <<>>]

\* _iter_jsonld_blocks: the values the ld+json scripts of a page yield.
\* A script is [txt |-> "blank"] (empty text), [txt |-> "json", data |-> x]
\* (json.loads succeeds), or [txt |-> "lines", lines |-> <<..>>] (the text as
\* a whole is not JSON; each line is [ok |-> BOOLEAN, data |-> x]).
RECURSIVE iter_jsonld_lines(_)
iter_jsonld_lines(lines) ==
    IF lines = <<>> THEN <<>>
    ELSE (IF Head(lines).ok THEN <<Head(lines).data>> ELSE <<>>)
         \o iter_jsonld_lines(Tail(lines))

RECURSIVE iter_jsonld_blocks(_)
iter_jsonld_blocks(scripts) ==
    IF scripts = <<>> THEN <<>>
    ELSE LET s == Head(scripts)
         IN  (CASE s.txt = "blank" -> <<>>
                [] s.txt = "json" -> <<s.data>>
                [] OTHER -> iter_jsonld_lines(s.lines))
             \o iter_jsonld_blocks(Tail(scripts))

\* candidates = data if isinstance(data, list) else [data]
Candidates(data) == IF data.t = "list" THEN data.v ELSE <<data>>

\* the kept form of a name: stripped, when it is a non-empty str that is not a home word
KeptName(name) ==
    IF name.t = "str" /\ Strip(name.v) # <<>> /\ Lower(Strip(name.v)) \notin HomeWords
    THEN <<Strip(name.v)>>
    ELSE <<>>

(***************************************************************************)
(* extract_breadcrumb_from_jsonld (APP_CATALOG.py)                         *)
(***************************************************************************)
\* lines 157-167: the names of a top-level BreadcrumbList's items
RECURSIVE jsonld_top_names(_)
jsonld_top_names(items) ==
    IF items = <<>> THEN <<>>
    ELSE LET it == Head(items)
             n1 == IF it.t = "dict" /\ Get(it, "item").t = "dict"
                   THEN Get(Get(it, "item"), "name") ELSE JNull
             name == IF it.t # "dict" THEN JNull
                     ELSE IF ~Truthy(n1) THEN Get(it, "name") ELSE n1
         IN  KeptName(name) \o jsonld_top_names(Tail(items))

\* lines 174-179: the names of a BreadcrumbList found in an @graph
RECURSIVE jsonld_graph_names(_)
jsonld_graph_names(items) ==
    IF items = <<>> THEN Ret(<<>>)
    ELSE LET it == Head(items)
         IN  IF it.t # "dict" THEN Raise      \* it.get: AttributeError
             ELSE LET n1 == IF Get(it, "item").t = "dict"
                            THEN Get(Get(it, "item"), "name") ELSE JNull
                      name == IF Truthy(n1) THEN n1 ELSE Get(it, "name")
                      rest == jsonld_graph_names(Tail(items))
                  IN  IF rest.st = "raise" THEN Raise
                      ELSE Ret(KeptName(name) \o rest.val)

\* lines 171-181: the loop over the members of an @graph
RECURSIVE jsonld_graph_loop(_)
jsonld_graph_loop(graph) ==
    IF graph = <<>> THEN Nothing
    ELSE LET g == Head(graph)
         IN  IF g.t = "dict" /\ IsStr(Get(g, "@type"), T_BreadcrumbList)
             THEN LET els == IF HasKey(g, "itemListElement")
                             THEN Get(g, "itemListElement") ELSE JList(<<>>)
                      itr == Iterate(els)
                      names == jsonld_graph_names(itr.items)
                  IN  IF itr.raised \/ names.st = "raise" THEN Raise
                      ELSE IF names.val # <<>> THEN Ret(names.val)
                      ELSE jsonld_graph_loop(Tail(graph))
             ELSE jsonld_graph_loop(Tail(graph))

\* lines 152-181: the loop over the candidates of one block
RECURSIVE jsonld_breadcrumb_objs(_)
jsonld_breadcrumb_objs(objs) ==
    IF objs = <<>> THEN Nothing
    ELSE LET obj == Head(objs)
         IN  IF obj.t # "dict" THEN jsonld_breadcrumb_objs(Tail(objs))
             ELSE LET top == IF IsStr(Get(obj, "@type"), T_BreadcrumbList)
                                /\ Get(obj, "itemListElement").t = "list"
                             THEN jsonld_top_names(Get(obj, "itemListElement").v)
                             ELSE <<>>
                      gr == IF HasKey(obj, "@graph") /\ Get(obj, "@graph").t = "list"
                            THEN jsonld_graph_loop(Get(obj, "@graph").v)
                            ELSE Nothing
                  IN  IF top # <<>> THEN Ret(top)
                      ELSE IF gr.st # "next" THEN gr
                      ELSE jsonld_breadcrumb_objs(Tail(objs))

RECURSIVE jsonld_breadcrumb_blocks(_)
jsonld_breadcrumb_blocks(blocks) ==
    IF blocks = <<>> THEN Ret(<<>>)
    ELSE LET r == jsonld_breadcrumb_objs(Candidates(Head(blocks)))
         IN  IF r.st # "next" THEN r ELSE jsonld_breadcrumb_blocks(Tail(blocks))

extract_breadcrumb_from_jsonld(html) ==
    jsonld_breadcrumb_blocks(iter_jsonld_blocks(html.scripts))

(***************************************************************************)
(* extract_product_category_from_jsonld (APP_CATALOG.py)                   *)
(***************************************************************************)
IsProductType(x) == IsStr(x, T_Product) \/ IsStr(x, T_IndividualProduct)

\* a category that is returned: a str that is not blank
GoodCategory(cat) == cat.t = "str" /\ Strip(cat.v) # <<>>

\* lines 195-200
RECURSIVE product_graph_loop(_)
product_graph_loop(graph) ==
    IF graph = <<>> THEN Nothing
    ELSE LET g == Head(graph)
         IN  IF g.t = "dict" /\ IsProductType(Get(g, "@type")) /\ GoodCategory(Get(g, "category"))
             THEN Ret(Strip(Get(g, "category").v))
             ELSE product_graph_loop(Tail(graph))

\* lines 188-200
RECURSIVE product_category_objs(_)
product_category_objs(objs) ==
    IF objs = <<>> THEN Nothing
    ELSE LET obj == Head(objs)
         IN  IF obj.t # "dict" THEN product_category_objs(Tail(objs))
             ELSE LET isProd == IsProductType(Get(obj, "@type"))
                      c1 == Get(obj, "category")
                      brand == Get(obj, "brand")
                      \* (obj.get("brand") or {}).get("category")
                      brandRaises == isProd /\ ~Truthy(c1) /\ Truthy(brand) /\ brand.t # "dict"
                      cat == IF Truthy(c1) THEN c1
                             ELSE IF Truthy(brand) THEN Get(brand, "category")
                             ELSE JNull
                      gr == IF HasKey(obj, "@graph") /\ Get(obj, "@graph").t = "list"
                            THEN product_graph_loop(Get(obj, "@graph").v)
                            ELSE Nothing
                  IN  IF brandRaises THEN Raise
                      ELSE IF isProd /\ GoodCategory(cat) THEN Ret(Strip(cat.v))
                      ELSE IF gr.st # "next" THEN gr
                      ELSE product_category_objs(Tail(objs))

RECURSIVE product_category_blocks(_)
product_category_blocks(blocks) ==
    IF blocks = <<>> THEN Ret(<<>>)      \* None: no category
    ELSE LET r == product_category_objs(Candidates(Head(blocks)))
         IN  IF r.st # "next" THEN r ELSE product_category_blocks(Tail(blocks))

\* the category string, <<>> standing for None
extract_product_category_from_jsonld(html) ==
    product_category_blocks(iter_jsonld_blocks(html.scripts))

(***************************************************************************)
(* extract_breadcrumb_from_microdata, extract_category_from_datalayer,     *)
(* extract_breadcrumb_from_dom (APP_CATALOG.py)                            *)
(***************************************************************************)
\* html.microdata: the texts, get_text(strip=True), of the elements the
\* microdata selector finds
RECURSIVE microdata_names(_)
microdata_names(texts) ==
    IF texts = <<>> THEN <<>>
    ELSE (IF Head(texts) # <<>> /\ Lower(Head(texts)) \notin HomeWords
          THEN <<Head(texts)>> ELSE <<>>)
         \o microdata_names(Tail(texts))

extract_breadcrumb_from_microdata(html) == microdata_names(html.microdata)

\* cat = x.get("category") or x.get("department") or x.get("pageCategory")
datalayer_cat(x) ==
    IF Truthy(Get(x, "category")) THEN Get(x, "category")
    ELSE IF Truthy(Get(x, "department")) THEN Get(x, "department")
    ELSE Get(x, "pageCategory")

\* lines 218-222
RECURSIVE datalayer_events(_)
datalayer_events(evs) ==
    IF evs = <<>> THEN <<>>
    ELSE LET ev == Head(evs)
         IN  IF ev.t = "dict" /\ GoodCategory(datalayer_cat(ev))
             THEN Strip(datalayer_cat(ev).v)
             ELSE datalayer_events(Tail(evs))

\* html.datalayer: [m |-> "none"] (neither pattern matches), [m |-> "bad"] (the
\* matched text is not JSON) or [m |-> "json", data |-> x].  <<>> stands for None.
extract_category_from_datalayer(html) ==
    LET dl == html.datalayer
    IN  IF dl.m # "json" THEN <<>>
        ELSE IF dl.data.t = "list" THEN datalayer_events(dl.data.v)
        ELSE IF dl.data.t = "dict" /\ GoodCategory(datalayer_cat(dl.data))
             THEN Strip(datalayer_cat(dl.data).v)
        ELSE <<>>

\* lines 241-244: the texts kept among those of the a, span and li tags of a node
RECURSIVE dom_parts(_)
dom_parts(texts) ==
    IF texts = <<>> THEN <<>>
    ELSE LET t == Head(texts)
         IN  (IF t # <<>> /\ t \notin SeparatorGlyphs /\ Lower(t) \notin HomeWords
              THEN <<t>> ELSE <<>>)
             \o dom_parts(Tail(texts))

\* lines 245-248: immediate repeats collapsed
RECURSIVE dedupe_consecutive(_, _)
dedupe_consecutive(parts, out) ==
    IF parts = <<>> THEN out
    ELSE IF out = <<>> \/ out[Len(out)] # Head(parts)
         THEN dedupe_consecutive(Tail(parts), Append(out, Head(parts)))
         ELSE dedupe_consecutive(Tail(parts), out)

\* html.dom: per selector of the list, in its order, the node select_one finds:
\* [found |-> BOOLEAN, texts |-> the get_text(" ", strip=True) of its tags]
RECURSIVE dom_selectors(_)
dom_selectors(nodes) ==
    IF nodes = <<>> THEN <<>>
    ELSE LET out == IF Head(nodes).found
                    THEN dedupe_consecutive(dom_parts(Head(nodes).texts), <<>>)
                    ELSE <<>>
         IN  IF out # <<>> THEN out ELSE dom_selectors(Tail(nodes))

extract_breadcrumb_from_dom(html) == dom_selectors(html.dom)

(***************************************************************************)
(* extract_any_taxonomy (APP_CATALOG.py)                                   *)
(***************************************************************************)
\* the character class [>/\|rsaquo raquo] of the split pattern
SplitClass == {">", "/", "|", "rsaquo", "raquo"}

\* how many whitespace characters follow one another from position i on
RECURSIVE SpaceRun(_, _)
SpaceRun(s, i) == IF i <= Len(s) /\ IsSpace(s[i]) THEN 1 + SpaceRun(s, i + 1) ELSE 0

\* how many characters of the class follow one another from position i on
RECURSIVE ClassRun(_, _)
ClassRun(s, i) == IF i <= Len(s) /\ s[i] \in SplitClass THEN 1 + ClassRun(s, i + 1) ELSE 0

\* the length of the match of the split pattern that starts at i, 0 for none:
\* \s*[class]+\s* first, then \s*-\s* (the alternatives \s*>\s* and \s*/\s*
\* match only where the first one does)
SplitMatchLen(s, i) ==
    LET w == SpaceRun(s, i)
        r == ClassRun(s, i + w)
    IN  IF r > 0 THEN w + r + SpaceRun(s, i + w + r)
        ELSE IF i + w <= Len(s) /\ s[i + w] = "-" THEN w + 1 + SpaceRun(s, i + w + 1)
        ELSE 0

\* re.split(pattern, s) from position i on, start being where the current part began
RECURSIVE re_split_from(_, _, _)
re_split_from(s, start, i) ==
    IF i > Len(s) THEN <<SubSeq(s, start, Len(s))>>
    ELSE LET n == SplitMatchLen(s, i)
         IN  IF n = 0 THEN re_split_from(s, start, i + 1)
             ELSE <<SubSeq(s, start, i - 1)>> \o re_split_from(s, i + n, i + n)

re_split(s) == re_split_from(s, 1, 1)

\* [p.strip() for p in parts if p.strip()]
RECURSIVE strip_nonempty(_)
strip_nonempty(parts) ==
    IF parts = <<>> THEN <<>>
    ELSE (IF Strip(Head(parts)) # <<>> THEN <<Strip(Head(parts))>> ELSE <<>>)
         \o strip_nonempty(Tail(parts))

\* a variant of the split that returns the parts also when there is none
category_parts_without_fallback(cat) == strip_nonempty(re_split(cat))

\* lines 259-261 and 267-269
category_parts(cat) ==
    LET parts == strip_nonempty(re_split(cat))
    IN  IF parts # <<>> THEN parts ELSE <<cat>>

\* the result is [st, crumbs, tag]: st is "ret" or, when a sub-parser lets an
\* exception out, "raise"
extract_any_taxonomy(html) ==
    LET crumbs == extract_breadcrumb_from_jsonld(html)
        cat == extract_product_category_from_jsonld(html)
        micro == extract_breadcrumb_from_microdata(html)
        dl == extract_category_from_datalayer(html)
        dom == extract_breadcrumb_from_dom(html)
        raised == [st |-> "raise", crumbs |-> <<>>, tag |-> "none"]
    IN  IF crumbs.st = "raise" THEN raised
        ELSE IF crumbs.val # <<>> THEN [st |-> "ret", crumbs |-> crumbs.val, tag |-> "jsonld_breadcrumb"]
        ELSE IF cat.st = "raise" THEN raised
        ELSE IF cat.val # <<>> THEN [st |-> "ret", crumbs |-> category_parts(cat.val), tag |-> "jsonld_product"]
        ELSE IF micro # <<>> THEN [st |-> "ret", crumbs |-> micro, tag |-> "microdata"]
        ELSE IF dl # <<>> THEN [st |-> "ret", crumbs |-> category_parts(dl), tag |-> "datalayer"]
        ELSE IF dom # <<>> THEN [st |-> "ret", crumbs |-> dom, tag |-> "dom"]
        ELSE [st |-> "ret", crumbs |-> <<>>, tag |-> "none"]

(***************************************************************************)
(* extract_breadcrumb_from_html (APP_Catalog.py)                           *)
(***************************************************************************)
\* re.sub(r"\s+", " ", s): every run of whitespace becomes one space
RECURSIVE collapse_spaces(_)
collapse_spaces(s) ==
    IF s = <<>> THEN <<>>
    ELSE IF IsSpace(Head(s)) THEN <<" ">> \o collapse_spaces(LStrip(s))
    ELSE <<Head(s)>> \o collapse_spaces(Tail(s))

norm_text(x) == collapse_spaces(Strip(x))

\* the loop of clean, with its local out
RECURSIVE clean_loop(_, _)
clean_loop(items, out) ==
    IF items = <<>> THEN out
    ELSE LET t == norm_text(Head(items))
         IN  IF t = <<>> \/ t \in SeparatorGlyphs \/ Lower(t) \in HomeWords
             THEN clean_loop(Tail(items), out)
             ELSE IF out = <<>> \/ out[Len(out)] # t
                  THEN clean_loop(Tail(items), Append(out, t))
                  ELSE clean_loop(Tail(items), out)

clean(items) == clean_loop(items, <<>>)

Digits == <<"0","1","2","3","4","5","6","7","8","9">>

\* str(n) for a natural number n
RECURSIVE IntToStr(_)
IntToStr(n) == IF n < 10 THEN <<Digits[n + 1]>> ELSE IntToStr(n \div 10) \o <<Digits[(n % 10) + 1]>>

\* str(name) for a name that is a str or a number
StrOf(x) == IF x.t = "num" THEN IntToStr(x.v) ELSE x.v

\* lines 121-127: the names of the items of a BreadcrumbList or ItemList
RECURSIVE html_item_names(_)
html_item_names(items) ==
    IF items = <<>> THEN <<>>
    ELSE LET it == Head(items)
             n0 == IF it.t = "dict" THEN Get(it, "name") ELSE JNull
             name == IF it.t # "dict" THEN JNull
                     ELSE IF ~Truthy(n0) /\ Get(it, "item").t = "dict"
                          THEN Get(Get(it, "item"), "name")
                          ELSE n0
         IN  (IF Truthy(name) THEN <<StrOf(name)>> ELSE <<>>) \o html_item_names(Tail(items))

\* the length of the match of r"\s*>\s*|/|\\|rsaquo|raquo|," that starts at i, 0 for none
ProductSplitMatchLen(s, i) ==
    LET w == SpaceRun(s, i)
    IN  IF i + w <= Len(s) /\ s[i + w] = ">" THEN w + 1 + SpaceRun(s, i + w + 1)
        ELSE IF s[i] \in {"/", "\\", "rsaquo", "raquo", ","} THEN 1
        ELSE 0

RECURSIVE product_split_from(_, _, _)
product_split_from(s, start, i) ==
    IF i > Len(s) THEN <<SubSeq(s, start, Len(s))>>
    ELSE LET n == ProductSplitMatchLen(s, i)
         IN  IF n = 0 THEN product_split_from(s, start, i + 1)
             ELSE <<SubSeq(s, start, i - 1)>> \o product_split_from(s, i + n, i + n)

\* lines 116-138: the loop over the blocks of one script
RECURSIVE html_jsonld_blocks(_)
html_jsonld_blocks(blocks) ==
    IF blocks = <<>> THEN Nothing
    ELSE LET blk == Head(blocks)
             isList == blk.t = "dict"
                       /\ (IsStr(Get(blk, "@type"), T_BreadcrumbList) \/ IsStr(Get(blk, "@type"), T_ItemList))
             \* items = blk.get("itemListElement") or []
             items == IF isList /\ Truthy(Get(blk, "itemListElement"))
                      THEN Get(blk, "itemListElement") ELSE JList(<<>>)
             itr == Iterate(items)
             names == clean(html_item_names(itr.items))
             cat == IF blk.t = "dict" THEN Get(blk, "category") ELSE JNull
             parts == IF blk.t = "dict" /\ IsStr(Get(blk, "@type"), T_Product) /\ GoodCategory(cat)
                      THEN clean(product_split_from(cat.v, 1, 1))
                      ELSE <<>>
         IN  IF itr.raised THEN Raise          \* for it in items: TypeError
             ELSE IF names # <<>> THEN Ret(names)
             ELSE IF parts # <<>> THEN Ret(parts)
             ELSE html_jsonld_blocks(Tail(blocks))

\* lines 107-138: the loop over the ld+json scripts; a text that json.loads
\* rejects is skipped
RECURSIVE html_jsonld_scripts(_)
html_jsonld_scripts(scripts) ==
    IF scripts = <<>> THEN Nothing
    ELSE LET sc == Head(scripts)
             r == IF sc.txt = "json" THEN html_jsonld_blocks(Candidates(sc.data)) ELSE Nothing
         IN  IF r.st # "next" THEN r ELSE html_jsonld_scripts(Tail(scripts))

\* k.lower() for the keys the pages use
KeyLower(k) ==
    CASE k = "Breadcrumbs" -> "breadcrumbs"
      [] k = "breadCrumb" -> "breadcrumb"
      [] OTHER -> k

\* lines 150-155: the names a breadcrumb list of the page state contributes
RECURSIVE next_data_names(_)
next_data_names(v) ==
    IF v = <<>> THEN <<>>
    ELSE LET it == Head(v)
             n == IF it.t # "dict" THEN JNull
                  ELSE IF Truthy(Get(it, "name")) THEN Get(it, "name")
                  ELSE IF Truthy(Get(it, "label")) THEN Get(it, "label")
                  ELSE Get(it, "title")
         IN  (IF it.t = "dict" THEN (IF Truthy(n) THEN <<StrOf(n)>> ELSE <<>>)
              ELSE IF it.t = "str" THEN <<it.v>>
              ELSE <<>>)
             \o next_data_names(Tail(v))

\* lines 146-160: walk(x), as the names it appends to acc in order
RECURSIVE walk(_)
RECURSIVE walk_pairs(_)
RECURSIVE walk_list(_)
walk(x) ==
    IF x.t = "dict" THEN walk_pairs(x.v)
    ELSE IF x.t = "list" THEN walk_list(x.v)
    ELSE <<>>

walk_pairs(pairs) ==
    IF pairs = <<>> THEN <<>>
    ELSE LET k == Head(pairs)[1]
             v == Head(pairs)[2]
         IN  (IF v.t = "list" /\ KeyLower(k) \in {"breadcrumb", "breadcrumbs"}
              THEN next_data_names(v.v)
              ELSE walk(v))
             \o walk_pairs(Tail(pairs))

walk_list(l) == IF l = <<>> THEN <<>> ELSE walk(Head(l)) \o walk_list(Tail(l))

\* html.root: the node the breadcrumb selector finds, [found, texts], texts
\* being the get_text(" ", strip=True) of its li, a, span and name elements;
\* html.next_data: the __NEXT_DATA__ script, [m |-> "none" | "bad" | "json", data]
extract_breadcrumb_from_html(html) ==
    LET crumbs == IF html.root.found THEN clean(html.root.texts) ELSE <<>>
        ld == html_jsonld_scripts(html.scripts)
        acc == IF html.next_data.m = "json" THEN clean(walk(html.next_data.data)) ELSE <<>>
    IN  IF crumbs # <<>> THEN Ret(crumbs)
        ELSE IF ld.st # "next" THEN ld
        ELSE Ret(acc)

(***************************************************************************)
(* The pages the site may answer with.  A page is what the parsers read of *)
(* its markup: its ld+json scripts, its microdata names, its dataLayer     *)
(* assignment and its breadcrumb nodes.  Each part is drawn from a table   *)
(* of cases, and a page is any combination of them.                        *)
(***************************************************************************)
s_Inicio == <<"I","n","i","c","i","o">>
s_Home == <<"H","o","m","e">>
s_Moda == <<"M","o","d","a">>
s_Mujer == <<"M","u","j","e","r">>
s_Bottoms == <<"B","o","t","t","o","m","s">>
s_Deportes == <<"D","e","p","o","r","t","e","s">>
s_Otros_Productos == <<"O","t","r","o","s"," ","P","r","o","d","u","c","t","o","s">>
s_Varios == <<"V","a","r","i","o","s">>
s_Busqueda == <<"B","u_acute","s","q","u","e","d","a">>
s_Resultados == <<"R","e","s","u","l","t","a","d","o","s">>
s_Nike == <<"N","i","k","e">>

Script(x) == [txt |-> "json", data |-> x, lines |-> <<>>]
BlankScript == [txt |-> "blank", data |-> JNull, lines |-> <<>>]
LinesScript(ls) == [txt |-> "lines", data |-> JNull, lines |-> ls]
Named(n) == JDict(<< <<"name", JStr(n)>> >>)
ItemNamed(n) == JDict(<< <<"@type", JStr(<<"L","i","s","t","I","t","e","m">>)>>, <<"item", Named(n)>> >>)
BreadcrumbListOf(els) == JDict(<< <<"@type", JStr(T_BreadcrumbList)>>, <<"itemListElement", els>> >>)
ProductOf(pairs) == JDict(<< <<"@type", JStr(T_Product)>> >> \o pairs)
GraphOf(members) == JDict(<< <<"@context", JStr(<<"s">>)>>, <<"@graph", JList(members)>> >>)

\* the ld+json scripts of a page
LdJsonScripts ==
    << \* 1: no ld+json script
       <<>>,
       \* 2: a BreadcrumbList: Inicio, Moda, Moda, " Mujer "
       << Script(BreadcrumbListOf(JList(<< ItemNamed(s_Inicio), Named(s_Moda),
                                            ItemNamed(s_Moda), Named(<<" ">> \o s_Mujer \o <<" ">>) >>))) >>,
       \* 3: a BreadcrumbList that holds only the home crumb
       << Script(BreadcrumbListOf(JList(<< ItemNamed(s_Home) >>))) >>,
       \* 4: a blank script, then a list of blocks whose BreadcrumbList names search noise only
       << BlankScript,
          Script(JList(<< JStr(<<"x">>),
                          BreadcrumbListOf(JList(<< Named(s_Busqueda), Named(s_Resultados) >>)) >>)) >>,
       \* 5: an @graph with a BreadcrumbList: Moda, Otros Productos
       << Script(GraphOf(<< BreadcrumbListOf(JList(<< Named(s_Moda), Named(s_Otros_Productos) >>)) >>)) >>,
       \* 6: an @graph with a BreadcrumbList whose itemListElement is a number
       << Script(GraphOf(<< BreadcrumbListOf(JNum(5)) >>)) >>,
       \* 7: an @graph with a BreadcrumbList whose entries are strings
       << Script(GraphOf(<< BreadcrumbListOf(JList(<< JStr(s_Moda), JStr(s_Mujer) >>)) >>)) >>,
       \* 8: a Product with category Moda/Mujer/Bottoms
       << Script(ProductOf(<< <<"category", JStr(s_Moda \o <<"/">> \o s_Mujer \o <<"/">> \o s_Bottoms)>> >>)) >>,
       \* 9: a Product without category whose brand is a string
       << Script(ProductOf(<< <<"brand", JStr(s_Nike)>> >>)) >>,
       \* 10: a Product with category Home
       << Script(ProductOf(<< <<"category", JStr(s_Home)>> >>)) >>,
       \* 11: a text that is JSON only line by line: a Product with category Otros Productos
       << LinesScript(<< [ok |-> FALSE, data |-> JNull],
                         [ok |-> TRUE, data |-> ProductOf(<< <<"category", JStr(s_Otros_Productos)>> >>)] >>) >>,
       \* 12: a BreadcrumbList whose itemListElement is an object, and a Product
       \*     whose brand object has the category " Moda > Mujer "
       << Script(JList(<< BreadcrumbListOf(Named(s_Moda)),
                          ProductOf(<< <<"brand", JDict(<< <<"category",
                              JStr(<<" ">> \o s_Moda \o <<" ",">"," ">> \o s_Mujer \o <<" ">>)>> >>)>> >>) >>)) >>,
       \* 13: a Product with category " - "
       << Script(ProductOf(<< <<"category", JStr(<<" ","-"," ">>)>> >>)) >>,
       \* 14: a BreadcrumbList whose itemListElement is a number
       << Script(BreadcrumbListOf(JNum(5))) >> >>

\* the texts of the microdata name elements of a page
MicrodataTexts ==
    << \* 1: no microdata
       <<>>,
       \* 2: Home, Moda, Mujer
       << s_Home, s_Moda, s_Mujer >>,
       \* 3: Inicio only
       << s_Inicio >> >>

\* the dataLayer / vtex assignment of a page
DataLayers ==
    << \* 1: none
       [m |-> "none", data |-> JNull],
       \* 2: a text that is not JSON
       [m |-> "bad", data |-> JNull],
       \* 3: a dataLayer list whose event has department "Moda - Mujer"
       [m |-> "json", data |-> JList(<< JStr(<<"x">>),
            JDict(<< <<"category", JStr(<<>>)>>,
                     <<"department", JStr(s_Moda \o <<" ","-"," ">> \o s_Mujer)>> >>) >>)],
       \* 4: a vtex object with pageCategory Varios
       [m |-> "json", data |-> JDict(<< <<"pageCategory", JStr(s_Varios)>> >>)] >>

\* the breadcrumb nodes of a page, one per selector of extract_breadcrumb_from_dom
DomNodes ==
    << \* 1: no breadcrumb node
       << [found |-> FALSE, texts |-> <<>>], [found |-> FALSE, texts |-> <<>>] >>,
       \* 2: nav[aria-label="breadcrumb"]: Home > Moda Moda Mujer
       << [found |-> TRUE, texts |-> << s_Home, <<">">>, s_Moda, s_Moda, s_Mujer >>],
          [found |-> FALSE, texts |-> <<>>] >>,
       \* 3: a nav with the home crumb only, and ol.breadcrumb: Deportes
       << [found |-> TRUE, texts |-> << s_Home, <<"bull">> >>],
          [found |-> TRUE, texts |-> << s_Deportes >>] >>,
       \* 4: a nav whose labels hold a line break, a comma and quote characters:
       \*    Home, "Ropa\nMujer", 'Jeans, "Slim"'
       << [found |-> TRUE, texts |-> << s_Home, <<"R","o","p","a","\n","M","u","j","e","r">>,
                                       <<"J","e","a","n","s",","," ","\"","S","l","i","m","\"">> >>],
          [found |-> FALSE, texts |-> <<>>] >> >>

\* the breadcrumb root of a page, as extract_breadcrumb_from_html selects it
RootNodes ==
    << \* 1: no breadcrumb root
       [found |-> FALSE, texts |-> <<>>],
       \* 2: Inicio / Moda Moda "Otros  Productos" (two spaces)
       [found |-> TRUE, texts |-> << s_Inicio, <<"/">>, s_Moda, s_Moda,
                                     <<"O","t","r","o","s"," "," ","P","r","o","d","u","c","t","o","s">> >>],
       \* 3: Home > Moda Mujer
       [found |-> TRUE, texts |-> << s_Home, <<">">>, s_Moda, s_Mujer >>],
       \* 4: a root with the home crumb only
       [found |-> TRUE, texts |-> << s_Home >>] >>

\* the __NEXT_DATA__ script of a page
NextDatas ==
    << \* 1: none
       [m |-> "none", data |-> JNull],
       \* 2: a text that is not JSON
       [m |-> "bad", data |-> JNull],
       \* 3: a page state with Breadcrumbs: {name: Home}, {label: Moda}, "Mujer"
       [m |-> "json", data |-> JDict(<< <<"props", JDict(<< <<"pageProps", JDict(<<
            <<"Breadcrumbs", JList(<< Named(s_Home),
                                      JDict(<< <<"label", JStr(s_Moda)>> >>),
                                      JStr(s_Mujer) >>)>> >>)>> >>)>> >>)] >>

\* a page is named by the case of each of its parts
PageIds == (1..Len(LdJsonScripts)) \X (1..Len(MicrodataTexts))
           \X (1..Len(DataLayers)) \X (1..Len(DomNodes))

\* the markup of page p as the parsers of APP_CATALOG.py read it
PageAt(p) ==
    [scripts |-> LdJsonScripts[p[1]], microdata |-> MicrodataTexts[p[2]],
     datalayer |-> DataLayers[p[3]], dom |-> DomNodes[p[4]]]

\* extract_any_taxonomy on page p
TaxonomyOf(p) == extract_any_taxonomy(PageAt(p))

\* the pages of the site as APP_Catalog.py reads them
PwPageIds == (1..Len(RootNodes)) \X (1..Len(LdJsonScripts)) \X (1..Len(NextDatas))

PwPageAt(p) ==
    [root |-> RootNodes[p[1]], scripts |-> LdJsonScripts[p[2]], next_data |-> NextDatas[p[3]]]

\* extract_breadcrumb_from_html on page p
BreadcrumbOf(p) == extract_breadcrumb_from_html(PwPageAt(p))

(***************************************************************************)
(* session_get                                                             *)
(***************************************************************************)
\* the subclasses of requests.RequestException a GET fails with
RequestExceptions == {"ConnectionError", "Timeout", "TooManyRedirects"}

NoResponse == [none |-> TRUE, status |-> 0, url |-> <<>>, len |-> 0, doc |-> 0]

\* the requests.Response of an outcome of session.get that is no exception;
\* len is len(r.text), doc the document r.text holds
ResponseOf(out) ==
    [none |-> FALSE, status |-> out.status, url |-> out.url, len |-> out.len, doc |-> out.doc]

\* a variant of session_get that does not look at the body
session_get_any_body(out) ==
    IF out.exc # "none"
    THEN IF out.exc \in RequestExceptions THEN Ret(NoResponse) ELSE Raise
    ELSE IF out.status = 200 THEN Ret(ResponseOf(out))
    ELSE Ret(NoResponse)

\* session_get of APP_CATALOG.py on the outcome of session.get
session_get(out) ==
    IF out.exc # "none"
    THEN IF out.exc \in RequestExceptions THEN Ret(NoResponse) ELSE Raise
    ELSE IF out.status = 200 /\ out.len > 0 THEN Ret(ResponseOf(out))
    ELSE Ret(NoResponse)

\* session_get of APP_Catalog.py on the outcome of sess.get
session_get_pw(out) ==
    IF out.exc # "none"
    THEN IF out.exc \in RequestExceptions THEN Ret(NoResponse) ELSE Raise
    ELSE IF out.status = 200 /\ out.len > 0 THEN Ret(ResponseOf(out))
    ELSE Ret(NoResponse)

(***************************************************************************)
(* URLs and navigation                                                     *)
(***************************************************************************)
\* DOMAIN (a reserved word of the language, hence the underscore)
DOMAIN_ == <<"h","t","t","p","s",":","/","/","s","i","m","p","l","e",".","r","i","p","l","e","y",".","c","l">>
DOMAINS ==
    << <<"h","t","t","p","s",":","/","/","w","w","w",".","r","i","p","l","e","y",".","c","o","m">>,
       DOMAIN_,
       <<"h","t","t","p","s",":","/","/","w","w","w",".","r","i","p","l","e","y",".","c","o","m",".","p","e">> >>

\* SEARCH_PATH.format(q=sku)
SEARCH_PATH(q) == <<"/","b","u","s","c","a","?","N","t","t","=">> \o q

RECURSIVE RStripSlash(_)
\* base.rstrip("/")
RStripSlash(u) == IF u # <<>> /\ u[Len(u)] = "/" THEN RStripSlash(SubSeq(u, 1, Len(u) - 1)) ELSE u

\* ("-p" in u) or ("/p/" in u)
LooksLikePdp(u) == Contains(u, <<"-","p">>) \/ Contains(u, <<"/","p","/">>)

StartsWith(u, pre) == Len(u) >= Len(pre) /\ SubSeq(u, 1, Len(pre)) = pre

\* urljoin(DOMAIN_, href) for an absolute href and for a path
urljoin(base, href) ==
    IF StartsWith(href, <<"h","t","t","p","s",":","/","/">>) THEN href
    ELSE IF StartsWith(href, <<"/">>) THEN base \o href
    ELSE base \o <<"/">> \o href

\* the links of a page: the href of its anchors in document order, the href
\* of its canonical link and the content of its og:url (<<>>: the tag is absent)
NavLinks ==
    << \* 1: no anchor, no canonical link, no og:url
       [anchors |-> <<>>, canonical |-> <<>>, og |-> <<>>],
       \* 2: a listing: a facet link, then the detail page " /a-p1 "
       [anchors |-> << <<"/","b","u","s","c","a","?","f">>, <<" ","/","a","-","p","1"," ">> >>,
        canonical |-> <<>>, og |-> <<>>],
       \* 3: no detail anchor; the canonical link is the detail page https://simple.ripley.cl/p/a1
       [anchors |-> << <<"/","b","u","s","c","a","?","f">> >>,
        canonical |-> DOMAIN_ \o <<"/","p","/","a","1">>, og |-> <<>>],
       \* 4: a canonical link to the listing; og:url is the detail page
       [anchors |-> <<>>, canonical |-> DOMAIN_ \o <<"/","b","u","s","c","a">>,
        og |-> DOMAIN_ \o <<"/","a","-","p","1">>],
       \* 5: two detail anchors /p/a1 and /p/b2
       [anchors |-> << <<"/","p","/","a","1">>, <<"/","p","/","b","2">> >>,
        canonical |-> <<>>, og |-> <<>>],
       \* 6: no detail anchor; the canonical link is the relative address /p/a1
       [anchors |-> << <<"/","b","u","s","c","a","?","f">> >>,
        canonical |-> <<"/","p","/","a","1">>, og |-> <<>>],
       \* 7: a detail anchor a-p1 without a leading slash, and a canonical detail link
       [anchors |-> << <<"a","-","p","1">> >>,
        canonical |-> DOMAIN_ \o <<"/","p","/","b","2">>, og |-> <<>>] >>

\* select_one('a[href*="-p"], a[href*="/p/"]'): the first such anchor, 0 for none
FirstPdpAnchor(anchors) ==
    IF \E k \in 1..Len(anchors) : LooksLikePdp(anchors[k])
    THEN CHOOSE k \in 1..Len(anchors) :
            LooksLikePdp(anchors[k]) /\ \A j \in 1..(k - 1) : ~LooksLikePdp(anchors[j])
    ELSE 0

\* <<>> stands for None
resolve_first_pdp_url_from_search_html(nav) ==
    LET k == FirstPdpAnchor(nav.anchors)
    IN  IF k > 0 THEN urljoin(DOMAIN_, Strip(nav.anchors[k]))
        ELSE IF nav.canonical # <<>> /\ LooksLikePdp(nav.canonical) THEN nav.canonical
        ELSE IF nav.og # <<>> /\ LooksLikePdp(nav.og) THEN nav.og
        ELSE <<>>

\* soup.select("a[href*='/p/']") with the test of line 221: the href kept, in order
RECURSIVE pdp_links(_)
pdp_links(anchors) ==
    IF anchors = <<>> THEN <<>>
    ELSE (IF Contains(Head(anchors), <<"/","p","/">>) THEN <<Head(anchors)>> ELSE <<>>)
         \o pdp_links(Tail(anchors))

(***************************************************************************)
(* The documents the site serves during a run: a page, its links and the   *)
(* length of its text.                                                     *)
(***************************************************************************)
SiteDocs ==
    << \* 1: nothing to extract, no link
       [page |-> <<1, 1, 1, 1>>, nav |-> 1, len |-> 90],
       \* 2: a listing with a detail anchor
       [page |-> <<1, 1, 1, 1>>, nav |-> 2, len |-> 250],
       \* 3: a listing whose canonical link is a detail page
       [page |-> <<3, 3, 2, 1>>, nav |-> 3, len |-> 260],
       \* 4: a detail page with the breadcrumb Moda, Moda, Mujer
       [page |-> <<2, 1, 1, 1>>, nav |-> 1, len |-> 1200],
       \* 5: a detail page whose only category is Home
       [page |-> <<10, 1, 1, 1>>, nav |-> 1, len |-> 800],
       \* 6: a detail page with the single category Otros Productos
       [page |-> <<11, 1, 1, 1>>, nav |-> 1, len |-> 810],
       \* 7: a detail page with the breadcrumb Moda, Otros Productos
       [page |-> <<5, 2, 1, 1>>, nav |-> 1, len |-> 1300],
       \* 8: a detail page whose @graph BreadcrumbList has a number for itemListElement
       [page |-> <<6, 2, 1, 2>>, nav |-> 1, len |-> 1100],
       \* 9: a detail page with the breadcrumb node Deportes
       [page |-> <<1, 3, 2, 3>>, nav |-> 1, len |-> 700] >>

PwSiteDocs ==
    << \* 1: nothing to extract, no link
       [page |-> <<1, 1, 1>>, nav |-> 1, len |-> 90],
       \* 2: a rendered listing with a breadcrumb and two detail anchors
       [page |-> <<3, 1, 1>>, nav |-> 5, len |-> 1200],
       \* 3: a rendered listing with detail anchors and no breadcrumb
       [page |-> <<4, 1, 2>>, nav |-> 5, len |-> 90],
       \* 4: a detail page with the breadcrumb root Home > Moda Mujer
       [page |-> <<3, 1, 1>>, nav |-> 1, len |-> 1200],
       \* 5: a detail page with the breadcrumb root Moda, Otros Productos
       [page |-> <<2, 1, 1>>, nav |-> 1, len |-> 1300],
       \* 6: a detail page whose BreadcrumbList has a number for itemListElement
       [page |-> <<1, 14, 1>>, nav |-> 1, len |-> 1100] >>

Docs == IF variant = "APP_CATALOG" THEN SiteDocs ELSE PwSiteDocs

\* what session.get may do for a request of url: fail, or answer with a
\* status, a final URL and a document
GetOutcomes(url, finals) ==
    {[exc |-> e, status |-> 0, url |-> url, len |-> 0, doc |-> 0] : e \in RequestExceptions}
    \cup {[exc |-> "none", status |-> 404, url |-> url, len |-> Docs[1].len, doc |-> 1],
          [exc |-> "none", status |-> 200, url |-> url, len |-> 0, doc |-> 0]}
    \cup {[exc |-> "none", status |-> 200, url |-> u, len |-> Docs[d].len, doc |-> d] :
            u \in finals, d \in 1..Len(Docs)}

\* what get_html_with_playwright may meet: the engine is missing, the
\* navigation fails or times out, or the page renders to a document
\* (doc 0: page.content() is empty)
RenderOutcomes ==
    {[fail |-> f, doc |-> 0] : f \in {"ImportError", "TimeoutError", "Error"}}
    \cup {[fail |-> "none", doc |-> d] : d \in 0..Len(PwSiteDocs)}

\* a variant of get_html_with_playwright that reads the content of the page
\* after a navigation that timed out
get_html_after_timeout(out) ==
    IF out.fail = "TimeoutError" THEN 1
    ELSE IF out.fail # "none" THEN 0
    ELSE out.doc

\* get_html_with_playwright: the document, 0 standing for no content
get_html_with_playwright(out) == IF out.fail # "none" THEN 0 ELSE out.doc

(***************************************************************************)
(* analyze_sku: the rows                                                   *)
(***************************************************************************)
SI == "Si"
NO == "No"
CrumbSep == <<" ", ">", " ">>

OBS_SOLO_HOME == "Breadcrumb indica solo Home/Inicio -> NO catalogado"
OBS_UN_NIVEL == "Solo 1 nivel util en breadcrumb/categoria"
OBS_FALTAN == "Faltan niveles o hay misc."
OBS_NO_ENCONTRADO == "No encontrado / sin HTML"

\* a variant of the note that leaves the flag solo_home out of account
observacion_without_flag(cat, solo_home, crumbs_limpios) ==
    IF cat THEN ""
    ELSE IF Len(crumbs_limpios) = 1 THEN OBS_UN_NIVEL
    ELSE OBS_FALTAN

\* APP_CATALOG.py lines 353-361: the note of a fetched page
observacion(cat, solo_home, crumbs_limpios) ==
    IF cat THEN ""
    ELSE IF solo_home THEN OBS_SOLO_HOME
    ELSE IF Len(crumbs_limpios) = 1 THEN OBS_UN_NIVEL
    ELSE OBS_FALTAN

\* APP_CATALOG.py lines 349-371: the row of a fetched page
analyze_row(sku, url, html_len, crumbs_raw, source, mode) ==
    LET n == normalize_crumbs(crumbs_raw)
        crumbs_limpios == n.cleaned
        solo_home == n.only_noise
        cat == is_catalogado_from_limpios(crumbs_limpios)
        obs == observacion(cat, solo_home, crumbs_limpios)
    IN  [SKU |-> sku,
         Catalogado |-> IF cat THEN SI ELSE NO,
         Breadcrumb_crudo |-> Join(CrumbSep, crumbs_raw),
         Breadcrumb_limpio |-> Join(CrumbSep, crumbs_limpios),
         FuenteTaxonomia |-> source,
         URL |-> url,
         Observacion |-> obs,
         Modo |-> mode,
         HTML_len |-> IntToStr(html_len)]

\* a variant of the row of lines 373-383 that reports the mode of the last attempt
not_found_row_with_mode(sku) ==
    [SKU |-> sku,
     Catalogado |-> NO,
     Breadcrumb_crudo |-> <<>>,
     Breadcrumb_limpio |-> <<>>,
     FuenteTaxonomia |-> "none",
     URL |-> <<>>,
     Observacion |-> OBS_NO_ENCONTRADO,
     Modo |-> "requests+cookies",
     HTML_len |-> <<"0">>]

\* APP_CATALOG.py lines 373-383
not_found_row(sku) ==
    [SKU |-> sku,
     Catalogado |-> NO,
     Breadcrumb_crudo |-> <<>>,
     Breadcrumb_limpio |-> <<>>,
     FuenteTaxonomia |-> "none",
     URL |-> <<>>,
     Observacion |-> OBS_NO_ENCONTRADO,
     Modo |-> "none",
     HTML_len |-> <<"0">>]

\* APP_Catalog.py lines 235-250: the row of a fetched page
analyze_row_pw(sku, url, html_len, crumbs, mode) ==
    LET cat == Len(crumbs) >= 2 /\ ~\E k \in 1..Len(crumbs) : MISC_PAT_search(crumbs[k])
    IN  [SKU |-> sku,
         Catalogado |-> IF cat THEN SI ELSE NO,
         Breadcrumb |-> Join(CrumbSep, crumbs),
         URL |-> url,
         Observacion |-> IF cat THEN "" ELSE OBS_FALTAN,
         Modo |-> mode,
         HTML_len |-> IntToStr(html_len)]

\* APP_Catalog.py lines 251-259
not_found_row_pw(sku) ==
    [SKU |-> sku,
     Catalogado |-> NO,
     Breadcrumb |-> <<>>,
     URL |-> <<>>,
     Observacion |-> OBS_NO_ENCONTRADO,
     Modo |-> "none",
     HTML_len |-> <<"0">>]

(***************************************************************************)
(* to_csv (APP_CATALOG.py)                                                 *)
(***************************************************************************)
\* cols
cols == <<"SKU", "Catalogado", "Breadcrumb_crudo", "Breadcrumb_limpio",
          "FuenteTaxonomia", "URL", "Observacion", "Modo", "HTML_len">>

\* the name of a column as the header has it (the model's field names are
\* written without accents)
ColumnText(k) ==
    CASE k = "SKU" -> <<"S","K","U">>
      [] k = "Catalogado" -> <<"C","a","t","a","l","o","g","a","d","o">>
      [] k = "Breadcrumb_crudo" -> <<"B","r","e","a","d","c","r","u","m","b","_","c","r","u","d",
          "o">>
      [] k = "Breadcrumb_limpio" -> <<"B","r","e","a","d","c","r","u","m","b","_","l","i","m","p",
          "i","o">>
      [] k = "FuenteTaxonomia" -> <<"F","u","e","n","t","e","T","a","x","o","n","o","m","i_acute",
          "a">>
      [] k = "URL" -> <<"U","R","L">>
      [] k = "Observacion" -> <<"O","b","s","e","r","v","a","c","i","o_acute","n">>
      [] k = "Modo" -> <<"M","o","d","o">>
      [] k = "HTML_len" -> <<"H","T","M","L","_","l","e","n">>

\* the text of a cell value that the model writes as a string
TextOf(v) ==
    CASE v = SI -> <<"S","i_acute">>
      [] v = NO -> <<"N","o">>
      [] v = "" -> <<>>
      [] v = OBS_SOLO_HOME -> <<"B","r","e","a","d","c","r","u","m","b"," ","i","n","d","i","c","a",
          " ","s","o","l","o"," ","H","o","m","e","/","I","n","i","c","i","o"," ","rarr"," ","N",
          "O"," ","c","a","t","a","l","o","g","a","d","o">>
      [] v = OBS_UN_NIVEL -> <<"S","o","l","o"," ","1"," ","n","i","v","e","l"," ","u_acute","t",
          "i","l"," ","e","n"," ","b","r","e","a","d","c","r","u","m","b","/","c","a","t","e","g",
          "o","r","i_acute","a">>
      [] v = OBS_FALTAN -> <<"F","a","l","t","a","n"," ","n","i","v","e","l","e","s"," ","o"," ",
          "h","a","y"," ","m","i","s","c",".">>
      [] v = OBS_NO_ENCONTRADO -> <<"N","o"," ","e","n","c","o","n","t","r","a","d","o"," ","/"," ",
          "s","i","n"," ","H","T","M","L">>
      [] v = "jsonld_breadcrumb" -> <<"j","s","o","n","l","d","_","b","r","e","a","d","c","r","u",
          "m","b">>
      [] v = "jsonld_product" -> <<"j","s","o","n","l","d","_","p","r","o","d","u","c","t">>
      [] v = "microdata" -> <<"m","i","c","r","o","d","a","t","a">>
      [] v = "datalayer" -> <<"d","a","t","a","l","a","y","e","r">>
      [] v = "dom" -> <<"d","o","m">>
      [] v = "none" -> <<"n","o","n","e">>
      [] v = "requests+cookies" -> <<"r","e","q","u","e","s","t","s","+","c","o","o","k","i","e",
          "s">>

\* r.get(k, ""), as text; Catalogado, FuenteTaxonomia, Observacion and Modo
\* are the fields the model writes as strings
RowGet(r, k) ==
    IF k \in DOMAIN r
    THEN (IF k \in {"Catalogado", "FuenteTaxonomia", "Observacion", "Modo"}
          THEN TextOf(r[k]) ELSE r[k])
    ELSE <<>>

\* every quote character of the field doubled
RECURSIVE DoubleQuotes(_)
DoubleQuotes(f) ==
    IF f = <<>> THEN <<>>
    ELSE (IF Head(f) = "\"" THEN <<"\"", "\"">> ELSE <<Head(f)>>) \o DoubleQuotes(Tail(f))

\* a variant of the writer that never quotes a field
csv_field_unquoted(f) == f

\* a field as csv.writer writes it (QUOTE_MINIMAL): quoted when it holds the
\* delimiter, the quote character or a character of the line terminator
csv_field(f) ==
    IF \E i \in 1..Len(f) : f[i] \in {",", "\"", "\r", "\n"}
    THEN <<"\"">> \o DoubleQuotes(f) \o <<"\"">>
    ELSE f

\* writer.writerow: the fields joined by the delimiter, then the line terminator
csv_record(fields) ==
    Join(<<",">>, [j \in 1..Len(fields) |-> csv_field(fields[j])]) \o <<"\r", "\n">>

\* for r in rows: writer.writerow({k: r.get(k, "") for k in cols})
RECURSIVE writerows(_)
writerows(rows) ==
    IF rows = <<>> THEN <<>>
    ELSE csv_record([j \in 1..Len(cols) |-> RowGet(Head(rows), cols[j])])
         \o writerows(Tail(rows))

\* the UTF-8 bytes of a character; a byte below 0x80 is written as its character
Utf8Char(c) ==
    CASE c = "i_acute" -> <<"0xC3", "0xAD">>
      [] c = "o_acute" -> <<"0xC3", "0xB3">>
      [] c = "u_acute" -> <<"0xC3", "0xBA">>
      [] c = "U_acute" -> <<"0xC3", "0x9A">>
      [] c = "raquo" -> <<"0xC2", "0xBB">>
      [] c = "rsaquo" -> <<"0xE2", "0x80", "0xBA">>
      [] c = "bull" -> <<"0xE2", "0x80", "0xA2">>
      [] c = "rarr" -> <<"0xE2", "0x86", "0x92">>
      [] OTHER -> <<c>>

\* str.encode("utf-8"): the bytes of the characters in order (computed by halves)
RECURSIVE encode_utf8(_)
encode_utf8(text) ==
    IF text = <<>> THEN <<>>
    ELSE IF Len(text) = 1 THEN Utf8Char(text[1])
    ELSE LET h == Len(text) \div 2
         IN  encode_utf8(SubSeq(text, 1, h)) \o encode_utf8(SubSeq(text, h + 1, Len(text)))

\* writer.writeheader(), the rows, and buf.getvalue().encode("utf-8")
to_csv(rows) ==
    encode_utf8(csv_record([j \in 1..Len(cols) |-> ColumnText(cols[j])]) \o writerows(rows))

(***************************************************************************)
(* The run: the script from the button to the last row.                    *)
(***************************************************************************)
\* lines the operator may paste
RawLines == { <<"A","1","-","4">>, <<" ","B","2"," ">>, <<" ">> }

\* [s.strip() for s in raw.splitlines() if s.strip()]
RECURSIVE stripped_lines(_)
stripped_lines(lines) ==
    IF lines = <<>> THEN <<>>
    ELSE (IF Strip(Head(lines)) # <<>> THEN <<Strip(Head(lines))>> ELSE <<>>)
         \o stripped_lines(Tail(lines))

IdleUnit ==
    /\ u_fn = "none" /\ u_arg = <<>> /\ u_ret = [st |-> "pending"]
    /\ u_prev = [st |-> "pending"] /\ u_calls = 0

Init ==
    /\ variant \in {"APP_CATALOG", "APP_Catalog"}
    /\ raw \in SeqsUpTo(RawLines, MaxLines)
    /\ use_playwright \in (IF variant = "APP_Catalog" THEN BOOLEAN ELSE {FALSE})
    \* the select box of APP_Catalog.py at its default, index 0
    /\ domain = (IF variant = "APP_Catalog" THEN DOMAINS[1] ELSE DOMAIN_)
    /\ pc = "form"
    /\ skus = <<>> /\ idx = 0 /\ results = <<>> /\ hist = <<>>
    /\ sku_cands = <<>> /\ ci = 0 /\ pending = <<>>
    /\ sess = 0 /\ nsess = 0 /\ gets = <<>> /\ renders = <<>> /\ starved = FALSE
    /\ IdleUnit

sku == skus[idx]
cand == sku_cands[ci]

\* a variant of the loop that gives up after the candidate that gave no page
FailCandidate_gives_up ==
    /\ results' = Append(results, IF variant = "APP_CATALOG"
                                  THEN not_found_row(sku) ELSE not_found_row_pw(sku))
    /\ hist' = Append(hist, [fetched |-> FALSE, raw |-> <<>>, limpios |-> <<>>,
                             solo_home |-> FALSE, cand |-> 0, starved |-> starved'])
    /\ idx' = idx + 1
    /\ pc' = "loop"
    /\ ci' = ci

\* the candidate gave no page: the for loop of analyze_sku goes on, and past
\* the last candidate it returns the row of lines 373-383 (251-259)
FailCandidate ==
    IF ci < Len(sku_cands)
    THEN /\ ci' = ci + 1
         /\ pc' = "cand"
         /\ UNCHANGED <<results, hist, idx>>
    ELSE /\ results' = Append(results, IF variant = "APP_CATALOG"
                                       THEN not_found_row(sku) ELSE not_found_row_pw(sku))
         /\ hist' = Append(hist, [fetched |-> FALSE, raw |-> <<>>, limpios |-> <<>>,
                                  solo_home |-> FALSE, cand |-> 0, starved |-> starved'])
         /\ idx' = idx + 1
         /\ pc' = "loop"
         /\ ci' = ci

\* analyze_sku returns the row of a fetched page, and the loop of the script appends it
EmitRow(row, crumbs_raw) ==
    /\ results' = Append(results, row)
    /\ hist' = Append(hist, [fetched |-> TRUE, raw |-> crumbs_raw,
                             limpios |-> IF variant = "APP_CATALOG"
                                         THEN normalize_crumbs(crumbs_raw).cleaned ELSE crumbs_raw,
                             solo_home |-> IF variant = "APP_CATALOG"
                                           THEN normalize_crumbs(crumbs_raw).only_noise ELSE FALSE,
                             cand |-> ci, starved |-> starved'])
    /\ idx' = idx + 1
    /\ pc' = "loop"
    /\ ci' = ci

\* an exception leaves analyze_sku and the script
Crash ==
    /\ pc' = "crashed"
    /\ UNCHANGED <<results, hist, idx, ci>>

\* the button is pressed on a text area that is not blank
Start ==
    /\ pc = "form"
    /\ \E k \in 1..Len(raw) : Strip(raw[k]) # <<>>
    /\ skus' = stripped_lines(raw)
    /\ results' = <<>>
    /\ idx' = 1
    /\ pc' = "loop"
    /\ UNCHANGED <<variant, raw, use_playwright, domain, sku_cands, ci, pending,
                   sess, nsess, gets, renders, starved, hist>>
    /\ UNCHANGED uvars

\* the loop of the script calls analyze_sku on the next identifier
BeginSku ==
    /\ pc = "loop" /\ idx <= Len(skus)
    /\ sku_cands' = candidate_skus(sku)
    /\ ci' = 1
    /\ pending' = <<>>
    \* APP_Catalog.py line 229: one session per identifier
    /\ sess' = (IF variant = "APP_Catalog" THEN 1 ELSE 0)
    /\ nsess' = (IF variant = "APP_Catalog" THEN 1 ELSE 0)
    /\ gets' = <<>>
    /\ renders' = <<>>
    /\ starved' = TRUE
    /\ pc' = "cand"
    /\ UNCHANGED <<variant, raw, use_playwright, domain, skus, idx, results, hist>>
    /\ UNCHANGED uvars

\* the loop of the script ends
Finish ==
    /\ pc = "loop" /\ idx > Len(skus)
    /\ pc' = "done"
    /\ UNCHANGED <<variant, raw, use_playwright, domain, skus, idx, results, hist,
                   sku_cands, ci, pending, sess, nsess, gets, renders, starved>>
    /\ UNCHANGED uvars

\* the address a listing may redirect to
RedirectUrl == DOMAIN_ \o <<"/","a","-","p","1">>

\* best_effort_pdp_for_sku_with_cookies, lines 328-335: the listing is not a
\* detail page with a taxonomy, so its first detail link is looked for
FollowSearch(nav) ==
    \E pdp_url \in {resolve_first_pdp_url_from_search_html(nav)} :
        IF pdp_url = <<>> THEN FailCandidate /\ pending' = <<>>
        ELSE /\ pc' = "pdp"
             /\ pending' = <<pdp_url>>
             /\ UNCHANGED <<results, hist, idx, ci>>

\* best_effort_pdp_for_sku_with_cookies, lines 323-335: a new session, the
\* search GET, and what follows from its answer
SearchGet ==
    /\ pc = "cand" /\ variant = "APP_CATALOG"
    /\ UNCHANGED <<variant, raw, use_playwright, domain, skus, sku_cands, renders>>
    /\ UNCHANGED uvars
    /\ nsess' = nsess + 1
    /\ sess' = nsess + 1
    /\ gets' = Append(gets, [sess |-> nsess + 1, cand |-> ci])
    /\ \E search_url \in {RStripSlash(DOMAIN_) \o SEARCH_PATH(cand)} :
       \E out \in GetOutcomes(search_url, {search_url, RedirectUrl}) :
       \E g \in {session_get(out)} :
          /\ starved' = (starved /\ g.st = "ret" /\ g.val.none)
          /\ IF g.st = "raise" THEN Crash /\ pending' = <<>>
             ELSE IF g.val.none THEN FailCandidate /\ pending' = <<>>
             ELSE IF LooksLikePdp(g.val.url)
                  THEN \E tax \in {TaxonomyOf(SiteDocs[g.val.doc].page)} :
                          IF tax.st = "raise" THEN Crash /\ pending' = <<>>
                          ELSE IF tax.crumbs # <<>>
                               THEN /\ EmitRow(analyze_row(sku, g.val.url, g.val.len, tax.crumbs,
                                                           tax.tag, "requests+cookies"), tax.crumbs)
                                    /\ pending' = <<>>
                          ELSE FollowSearch(NavLinks[SiteDocs[g.val.doc].nav])
             ELSE FollowSearch(NavLinks[SiteDocs[g.val.doc].nav])

\* a variant of PdpGet that returns the detail page even when its extraction
\* gave no crumbs
PdpGet_keeps_page_without_crumbs ==
    /\ pc = "pdp" /\ variant = "APP_CATALOG"
    /\ UNCHANGED <<variant, raw, use_playwright, domain, skus, sku_cands,
                   sess, nsess, renders, starved>>
    /\ UNCHANGED uvars
    /\ gets' = Append(gets, [sess |-> sess, cand |-> ci])
    /\ pending' = <<>>
    /\ \E out \in GetOutcomes(pending[1], {pending[1]}) :
       \E g \in {session_get(out)} :
          IF g.st = "raise" THEN Crash
          ELSE IF g.val.none THEN FailCandidate
          ELSE \E tax \in {TaxonomyOf(SiteDocs[g.val.doc].page)} :
                  IF tax.st = "raise" THEN Crash
                  ELSE EmitRow(analyze_row(sku, pending[1], g.val.len, tax.crumbs, tax.tag,
                                           "requests+cookies"), tax.crumbs)

\* best_effort_pdp_for_sku_with_cookies, lines 336-342: the GET of the detail page
PdpGet ==
    /\ pc = "pdp" /\ variant = "APP_CATALOG"
    /\ UNCHANGED <<variant, raw, use_playwright, domain, skus, sku_cands,
                   sess, nsess, renders, starved>>
    /\ UNCHANGED uvars
    /\ gets' = Append(gets, [sess |-> sess, cand |-> ci])
    /\ pending' = <<>>
    /\ \E out \in GetOutcomes(pending[1], {pending[1]}) :
       \E g \in {session_get(out)} :
          IF g.st = "raise" THEN Crash
          ELSE IF g.val.none THEN FailCandidate
          ELSE \E tax \in {TaxonomyOf(SiteDocs[g.val.doc].page)} :
                  IF tax.st = "raise" THEN Crash
                  ELSE IF tax.crumbs # <<>>
                       THEN EmitRow(analyze_row(sku, pending[1], g.val.len, tax.crumbs, tax.tag,
                                                "requests+cookies"), tax.crumbs)
                  ELSE FailCandidate

\* best_effort_pdp_for_sku, lines 205-210, with best_effort_pdp_via_requests
\* and, for a page, lines 234-250 of analyze_sku
RequestsGet ==
    /\ pc = "cand" /\ variant = "APP_Catalog"
    /\ UNCHANGED <<variant, raw, use_playwright, domain, skus, sku_cands,
                   pending, sess, nsess, renders>>
    /\ UNCHANGED uvars
    /\ gets' = Append(gets, [sess |-> sess, cand |-> ci])
    /\ \E pdp_url \in {RStripSlash(domain) \o <<"/","p","/">> \o cand} :
       \E out \in GetOutcomes(pdp_url, {pdp_url}) :
       \E g \in {session_get_pw(out)} :
          /\ starved' = (starved /\ g.st = "ret" /\ g.val.none)
          /\ IF g.st = "raise" THEN Crash
             ELSE IF ~g.val.none
                  THEN \E crumbs \in {BreadcrumbOf(PwSiteDocs[g.val.doc].page)} :
                          IF crumbs.st = "raise" THEN Crash
                          ELSE EmitRow(analyze_row_pw(sku, pdp_url, g.val.len, crumbs.val,
                                                      "requests"), crumbs.val)
             ELSE IF use_playwright
                  THEN /\ pc' = "render_search"
                       /\ UNCHANGED <<results, hist, idx, ci>>
             ELSE FailCandidate

\* best_effort_pdp_for_sku, lines 211-221: the listing is rendered
RenderSearch ==
    /\ pc = "render_search"
    /\ UNCHANGED <<variant, raw, use_playwright, domain, skus, sku_cands,
                   sess, nsess, gets, starved>>
    /\ UNCHANGED uvars
    /\ \E out \in RenderOutcomes :
       \E d \in {get_html_with_playwright(out)} :
          /\ renders' = Append(renders, [cand |-> ci, starved |-> starved,
                                         content_after_failure |-> (out.fail # "none" /\ d # 0)])
          /\ IF d = 0 THEN FailCandidate /\ pending' = <<>>
             ELSE \E crumbs \in {BreadcrumbOf(PwSiteDocs[d].page)},
                     links \in {pdp_links(NavLinks[PwSiteDocs[d].nav].anchors)} :
                     IF crumbs.st = "raise" THEN Crash /\ pending' = <<>>
                     ELSE IF crumbs.val = <<>> \/ links = <<>> THEN FailCandidate /\ pending' = <<>>
                     ELSE /\ pc' = "render_pdp"
                          /\ pending' = [k \in 1..Len(links) |-> RStripSlash(domain) \o links[k]]
                          /\ UNCHANGED <<results, hist, idx, ci>>

\* best_effort_pdp_for_sku, lines 222-225: the next detail link is rendered
\* and, for a page, lines 234-250 of analyze_sku
RenderPdp ==
    /\ pc = "render_pdp"
    /\ UNCHANGED <<variant, raw, use_playwright, domain, skus, sku_cands,
                   sess, nsess, gets, starved>>
    /\ UNCHANGED uvars
    /\ \E out \in RenderOutcomes :
       \E d \in {get_html_with_playwright(out)} :
          /\ renders' = Append(renders, [cand |-> ci, starved |-> starved,
                                         content_after_failure |-> (out.fail # "none" /\ d # 0)])
          /\ IF d = 0
             THEN IF Len(pending) > 1
                  THEN /\ pending' = Tail(pending)
                       /\ UNCHANGED <<pc, results, hist, idx, ci>>
                  ELSE FailCandidate /\ pending' = <<>>
             ELSE \E crumbs \in {BreadcrumbOf(PwSiteDocs[d].page)} :
                     IF crumbs.st = "raise" THEN Crash /\ pending' = <<>>
                     ELSE /\ EmitRow(analyze_row_pw(sku, pending[1], PwSiteDocs[d].len, crumbs.val,
                                                    "playwright(pdp)"), crumbs.val)
                          /\ pending' = <<>>

Next ==
    \/ Start
    \/ BeginSku
    \/ Finish
    \/ SearchGet
    \/ PdpGet
    \/ RequestsGet
    \/ RenderSearch
    \/ RenderPdp

Spec == Init /\ [][Next]_vars

(***************************************************************************)
(* Function-level harness: a function is applied to an argument drawn from *)
(* a bounded set.                                                          *)
(***************************************************************************)
\* identifiers as an operator may type them
SkuInputs ==
    { <<"M","P","M","1","0","0","0","2","9","1","3","8","1","0","-","4">>,
      <<" ","A","1","-","4"," ">>, <<"A","1"," ","-"," ","4">>, <<"A","1">>,
      <<"-","4">>, <<" ","-","4">>, <<"A","1","-">>, <<"A","-","4","-","2">>,
      <<"-">>, <<"\t","A","1","\n">> }

\* raw labels
RawLabels ==
    { None, <<>>, <<" ">>, <<">">>, s_Inicio, <<" ","H","O","M","E">>,
      s_Moda, <<" ">> \o s_Moda \o <<" ">>, s_Mujer, s_Otros_Productos }

\* texts of the elements of a breadcrumb root
RootTexts ==
    { <<>>, <<" ">>, <<"/">>, s_Home, <<" ","I","N","I","C","I","O">>, s_Moda,
      <<"M","o","d","a","\n">>, s_Mujer, <<"O","t","r","o","s"," "," ","P","r","o","d","u","c","t","o","s">> }

\* what session.get may do, whatever the address: fail with a network
\* exception, or answer with a status and a body of some length
SessionOutcomes ==
    {[exc |-> e, status |-> 0, url |-> <<"/">>, len |-> 0, doc |-> 0] : e \in RequestExceptions}
    \cup {[exc |-> "none", status |-> st, url |-> <<"/">>, len |-> n, doc |-> IF n > 0 THEN 1 ELSE 0] :
            st \in {200, 204, 301, 404, 500}, n \in {0, 90}}

\* rows to_csv may be given: rows of analyze_sku (a cataloged one, one whose
\* labels hold a line break, a comma and quote characters, a not-found one)
\* and a dict that lacks keys
CsvRows ==
    { analyze_row(<<"A","1","-","4">>, RedirectUrl, 1200, TaxonomyOf(<<2, 1, 1, 1>>).crumbs,
                  "jsonld_breadcrumb", "requests+cookies"),
      analyze_row(<<"B","2">>, RedirectUrl, 1200, TaxonomyOf(<<1, 1, 1, 4>>).crumbs,
                  "dom", "requests+cookies"),
      not_found_row(<<"B","2">>),
      [SKU |-> <<"C","3">>, Catalogado |-> NO] }

\* category strings as the extractors return them: not empty and trimmed
CategoryInputs ==
    { c \in SeqsUpTo({"a", "b", " ", ">", "/", "-", "raquo"}, MaxCatLen) : c # <<>> /\ Strip(c) = c }
    \cup { s_Moda \o <<"/">> \o s_Mujer \o <<"/">> \o s_Bottoms,
           s_Moda \o <<" ",">"," ">> \o s_Mujer \o <<" ","|"," ">> \o s_Bottoms,
           s_Moda \o <<" ","rsaquo","rsaquo"," ">> \o s_Mujer }

NotCalled == [st |-> "pending"]

IdleRun ==
    /\ variant = "none" /\ raw = <<>> /\ use_playwright = FALSE /\ domain = <<>>
    /\ pc = "idle" /\ skus = <<>> /\ idx = 0 /\ results = <<>> /\ hist = <<>>
    /\ sku_cands = <<>> /\ ci = 0 /\ pending = <<>>
    /\ sess = 0 /\ nsess = 0 /\ gets = <<>> /\ renders = <<>> /\ starved = FALSE

UnitInit ==
    /\ IdleRun
    /\ u_calls = 0
    /\ u_ret = NotCalled
    /\ u_prev = NotCalled
    /\ \/ u_fn = "candidate_skus" /\ u_arg \in SkuInputs
       \/ u_fn = "normalize_crumbs" /\ u_arg \in SeqsUpTo(RawLabels, MaxCrumbs)
       \/ u_fn = "extract_any_taxonomy" /\ u_arg \in PageIds
       \/ u_fn = "extract_breadcrumb_from_html" /\ u_arg \in PwPageIds
       \/ u_fn = "clean" /\ u_arg \in SeqsUpTo(RootTexts, MaxCrumbs)
       \/ u_fn \in {"APP_CATALOG.session_get", "APP_Catalog.session_get"} /\ u_arg \in SessionOutcomes
       \/ u_fn = "resolve_first_pdp_url_from_search_html" /\ u_arg \in 1..Len(NavLinks)
       \/ u_fn = "to_csv" /\ u_arg \in SeqsUpTo(CsvRows, MaxLines)
       \/ u_fn = "category_parts" /\ u_arg \in CategoryInputs

CallCandidateSkus ==
    /\ u_fn = "candidate_skus" /\ u_calls = 0
    /\ u_ret' = candidate_skus(u_arg)
    /\ u_calls' = 1
    /\ UNCHANGED <<u_fn, u_arg, u_prev>>
    /\ UNCHANGED rvars

\* normalize_crumbs applied to the argument, then to its own cleaned list
CallNormalizeCrumbs ==
    /\ u_fn = "normalize_crumbs" /\ u_calls < 2
    /\ u_ret' = normalize_crumbs(IF u_calls = 0 THEN u_arg ELSE u_ret.cleaned)
    /\ u_prev' = u_ret
    /\ u_calls' = u_calls + 1
    /\ UNCHANGED <<u_fn, u_arg>>
    /\ UNCHANGED rvars

CallExtractAnyTaxonomy ==
    /\ u_fn = "extract_any_taxonomy" /\ u_calls = 0
    /\ u_ret' = TaxonomyOf(u_arg)
    /\ u_calls' = 1
    /\ UNCHANGED <<u_fn, u_arg, u_prev>>
    /\ UNCHANGED rvars

CallExtractBreadcrumbFromHtml ==
    /\ u_fn = "extract_breadcrumb_from_html" /\ u_calls = 0
    /\ u_ret' = BreadcrumbOf(u_arg)
    /\ u_calls' = 1
    /\ UNCHANGED <<u_fn, u_arg, u_prev>>
    /\ UNCHANGED rvars

\* clean applied to the argument, then to its own result
CallClean ==
    /\ u_fn = "clean" /\ u_calls < 2
    /\ u_ret' = clean(IF u_calls = 0 THEN u_arg ELSE u_ret)
    /\ u_prev' = u_ret
    /\ u_calls' = u_calls + 1
    /\ UNCHANGED <<u_fn, u_arg>>
    /\ UNCHANGED rvars

CallSessionGet ==
    /\ u_fn \in {"APP_CATALOG.session_get", "APP_Catalog.session_get"} /\ u_calls = 0
    /\ u_ret' = (IF u_fn = "APP_CATALOG.session_get" THEN session_get(u_arg) ELSE session_get_pw(u_arg))
    /\ u_calls' = 1
    /\ UNCHANGED <<u_fn, u_arg, u_prev>>
    /\ UNCHANGED rvars

\* resolve_first_pdp_url_from_search_html on the links of a listing
CallResolveFirstPdpUrl ==
    /\ u_fn = "resolve_first_pdp_url_from_search_html" /\ u_calls = 0
    /\ u_ret' = resolve_first_pdp_url_from_search_html(NavLinks[u_arg])
    /\ u_calls' = 1
    /\ UNCHANGED <<u_fn, u_arg, u_prev>>
    /\ UNCHANGED rvars

\* lines 259-261 of extract_any_taxonomy on a category string
CallCategoryParts ==
    /\ u_fn = "category_parts" /\ u_calls = 0
    /\ u_ret' = category_parts(u_arg)
    /\ u_calls' = 1
    /\ UNCHANGED <<u_fn, u_arg, u_prev>>
    /\ UNCHANGED rvars

CallToCsv ==
    /\ u_fn = "to_csv" /\ u_calls = 0
    /\ u_ret' = to_csv(u_arg)
    /\ u_calls' = 1
    /\ UNCHANGED <<u_fn, u_arg, u_prev>>
    /\ UNCHANGED rvars

UnitNext ==
    \/ CallCandidateSkus
    \/ CallNormalizeCrumbs
    \/ CallExtractAnyTaxonomy
    \/ CallExtractBreadcrumbFromHtml
    \/ CallClean
    \/ CallSessionGet
    \/ CallResolveFirstPdpUrl
    \/ CallToCsv
    \/ CallCategoryParts

SpecUnit == UnitInit /\ [][UnitNext]_vars

(***************************************************************************)
(* Properties                                                              *)
(***************************************************************************)
\* the words of the misc pattern (otros|miscel|varios|variedad)
MiscAlternatives ==
    { <<"o","t","r","o","s">>, <<"m","i","s","c","e","l">>,
      <<"v","a","r","i","o","s">>, <<"v","a","r","i","e","d","a","d">> }

\* the label holds a match of the misc pattern, letter case ignored
HasMiscMatch(label) == \E w \in MiscAlternatives : Contains(Lower(label), w)

\* the list has at least 2 labels and none of them holds a misc match
TwoLevelsNoMisc(labels) ==
    Len(labels) >= 2 /\ \A k \in 1..Len(labels) : ~HasMiscMatch(labels[k])

\* C1: in every row of the result list, of either program and the not-found
\* row included, Catalogado is "Si" exactly when the cleaned crumb list of
\* the row has at least 2 labels and no label holds a misc match; it is
\* "No" otherwise.
C1_CatalogadoIffTwoLevelsNoMisc ==
    \A k \in 1..Len(results) :
        /\ results[k].Catalogado \in {SI, NO}
        /\ results[k].Catalogado = SI <=> TwoLevelsNoMisc(hist[k].limpios)
        /\ hist[k].fetched =>
              (IF variant = "APP_CATALOG" THEN results[k].Breadcrumb_limpio
                                          ELSE results[k].Breadcrumb)
              = Join(CrumbSep, hist[k].limpios)

\* C1 witness: a run of two identifiers one of whose rows is cataloged while
\* the other has two levels, one of them misc, and is not
C1_Witness ==
    /\ pc = "done" /\ Len(results) = 2
    /\ results[1].Catalogado = SI /\ Len(hist[1].limpios) >= 2
    /\ results[2].Catalogado = NO /\ Len(hist[2].limpios) >= 2
    /\ HasMiscMatch(hist[2].limpios[2])

\* C2: cleaning is idempotent: normalize_crumbs applied to the cleaned list
\* of normalize_crumbs(L) returns that list unchanged, and clean applied to
\* clean(L) returns clean(L), for every list L.
C2_CleaningIdempotent ==
    /\ (u_fn = "normalize_crumbs" /\ u_calls = 2) => u_ret.cleaned = u_prev.cleaned
    /\ (u_fn = "clean" /\ u_calls = 2) => u_ret = u_prev

\* C2 witness: a list that its first cleaning shortened to two labels or
\* more has been cleaned a second time
C2_Witness ==
    /\ u_fn = "normalize_crumbs" /\ u_calls = 2
    /\ Len(u_prev.cleaned) >= 2 /\ Len(u_prev.cleaned) < Len(u_arg)

\* a is b with some of its elements left out
RECURSIVE IsSubsequence(_, _)
IsSubsequence(a, b) ==
    IF a = <<>> THEN TRUE
    ELSE IF b = <<>> THEN FALSE
    ELSE IF Head(a) = Head(b) THEN IsSubsequence(Tail(a), Tail(b))
    ELSE IsSubsequence(a, Tail(b))

\* the home and search-noise tokens
NoiseTokens ==
    { <<"h","o","m","e">>, <<"i","n","i","c","i","o">>,
      <<"b","u_acute","s","q","u","e","d","a">>, <<"b","u","s","q","u","e","d","a">>,
      <<"r","e","s","u","l","t","a","d","o","s">>, <<"s","e","a","r","c","h">>,
      <<"r","e","s","u","l","t","s">> }

\* C3: the cleaned list normalize_crumbs returns is a subsequence, in order,
\* of the trimmed labels of its argument; it holds no empty label, no
\* separator glyph, no label whose lowercase form is a home or search-noise
\* token, and no two adjacent equal labels, also when a dropped label stood
\* between them; Inicio, Moda, Moda, Mujer cleans to Moda, Mujer.
C3_CleanedIsFilteredSubsequence ==
    (u_fn = "normalize_crumbs" /\ u_calls = 1) =>
        /\ IsSubsequence(u_ret.cleaned, [k \in 1..Len(u_arg) |-> Strip(u_arg[k])])
        /\ \A k \in 1..Len(u_ret.cleaned) :
              /\ u_ret.cleaned[k] \notin {<<>>, None}
              /\ u_ret.cleaned[k] \notin
                    { <<">">>, <<"/">>, <<"|">>, <<"rsaquo">>, <<"raquo">>, <<"bull">> }
              /\ Lower(u_ret.cleaned[k]) \notin NoiseTokens
              /\ k > 1 => u_ret.cleaned[k] # u_ret.cleaned[k - 1]
        /\ u_arg = <<s_Inicio, s_Moda, s_Moda, s_Mujer>> => u_ret.cleaned = <<s_Moda, s_Mujer>>
        /\ u_arg = <<s_Moda, s_Inicio, s_Moda>> => u_ret.cleaned = <<s_Moda>>

\* C3 witness: Inicio, Moda, Moda, Mujer has been cleaned to Moda, Mujer
C3_Witness ==
    /\ u_fn = "normalize_crumbs" /\ u_calls = 1
    /\ u_arg = <<s_Inicio, s_Moda, s_Moda, s_Mujer>>
    /\ u_ret.cleaned = <<s_Moda, s_Mujer>>

\* some label of the raw list is a non-empty token
HeldAToken(raw_crumbs) ==
    \E k \in 1..Len(raw_crumbs) : raw_crumbs[k] # None /\ Strip(raw_crumbs[k]) # <<>>

\* C4: in a row APP_CATALOG.py builds from a fetched page the note is empty
\* exactly when the row is cataloged; otherwise it is the only-home note when
\* the cleaned list is empty and the raw list held a non-empty token, the
\* single-level note when the cleaned list has exactly one label, be it misc
\* or not, and the missing-levels note in every other case.
C4_ObservationNote ==
    variant = "APP_CATALOG" =>
        \A k \in 1..Len(results) : hist[k].fetched =>
            /\ results[k].Observacion = "" <=> results[k].Catalogado = SI
            /\ results[k].Catalogado # SI =>
                  results[k].Observacion =
                     (IF hist[k].limpios = <<>> /\ HeldAToken(hist[k].raw)
                      THEN "Breadcrumb indica solo Home/Inicio -> NO catalogado"
                      ELSE IF Len(hist[k].limpios) = 1
                      THEN "Solo 1 nivel util en breadcrumb/categoria"
                      ELSE "Faltan niveles o hay misc.")

\* C4 witness: a run of APP_CATALOG.py with a row for the raw list Home and
\* a row for the single misc label Otros Productos
C4_Witness ==
    /\ variant = "APP_CATALOG" /\ Len(results) = 2
    /\ hist[1].fetched /\ hist[1].raw = <<s_Home>> /\ hist[1].limpios = <<>>
    /\ results[1].Observacion = OBS_SOLO_HOME
    /\ hist[2].fetched /\ hist[2].limpios = <<s_Otros_Productos>>
    /\ results[2].Observacion = OBS_UN_NIVEL

\* the part of s before its first "-", trimmed
PrefixBeforeDash(s) == Strip(SubSeq(s, 1, FirstIndex(s, "-") - 1))

\* C5: candidate_skus(s) is a list of 1 or 2 elements whose first is s
\* trimmed; there is a second exactly when s holds a "-" and the trimmed
\* prefix before the first "-" is non-empty and differs from the first
\* element, and the second is that prefix; MPM10002913810-4 gives
\* MPM10002913810-4, MPM10002913810.
C5_CandidateSkus ==
    (u_fn = "candidate_skus" /\ u_calls = 1) =>
        /\ Len(u_ret) \in {1, 2}
        /\ u_ret[1] = Strip(u_arg)
        /\ Len(u_ret) = 2 <=>
              /\ \E k \in 1..Len(u_arg) : u_arg[k] = "-"
              /\ PrefixBeforeDash(u_arg) # <<>>
              /\ PrefixBeforeDash(u_arg) # Strip(u_arg)
        /\ Len(u_ret) = 2 => u_ret[2] = PrefixBeforeDash(u_arg)
        /\ u_arg = <<"M","P","M","1","0","0","0","2","9","1","3","8","1","0","-","4">>
              => u_ret = << u_arg, <<"M","P","M","1","0","0","0","2","9","1","3","8","1","0">> >>

\* C5 witness: candidate_skus has returned two candidates for an identifier
\* typed with blanks around its "-"
C5_Witness ==
    /\ u_fn = "candidate_skus" /\ u_calls = 1
    /\ u_arg = <<"A","1"," ","-"," ","4">>
    /\ u_ret = << <<"A","1"," ","-"," ","4">>, <<"A","1">> >>

\* what each strategy yields on a page, in the order of priority, with its
\* tag; a category string yields its parts
StrategyYields(jb, cat, micro, dl, dom) ==
    << [tag |-> "jsonld_breadcrumb", out |-> jb.val],
       [tag |-> "jsonld_product", out |-> IF cat.val # <<>> THEN category_parts(cat.val) ELSE <<>>],
       [tag |-> "microdata", out |-> micro],
       [tag |-> "datalayer", out |-> IF dl # <<>> THEN category_parts(dl) ELSE <<>>],
       [tag |-> "dom", out |-> dom] >>

\* the list and the tag of the first strategy that yields something
FirstYield(ys) ==
    IF \E k \in 1..Len(ys) : ys[k].out # <<>>
    THEN LET f == CHOOSE k \in 1..Len(ys) :
                     ys[k].out # <<>> /\ \A j \in 1..(k - 1) : ys[j].out = <<>>
         IN  [crumbs |-> ys[f].out, tag |-> ys[f].tag]
    ELSE [crumbs |-> <<>>, tag |-> "none"]

\* C6: extract_any_taxonomy returns the list of the first strategy, in the
\* order structured breadcrumb, structured product category, microdata,
\* dataLayer, DOM, that yields something, with that strategy's tag; the tag
\* is "none" exactly when the list is empty.
C6_FirstStrategyWins ==
    (u_fn = "extract_any_taxonomy" /\ u_calls = 1) =>
        \A html \in {PageAt(u_arg)} :
            /\ u_ret.st = "ret"
            /\ FirstYield(StrategyYields(extract_breadcrumb_from_jsonld(html),
                                         extract_product_category_from_jsonld(html),
                                         extract_breadcrumb_from_microdata(html),
                                         extract_category_from_datalayer(html),
                                         extract_breadcrumb_from_dom(html)))
               = [crumbs |-> u_ret.crumbs, tag |-> u_ret.tag]
            /\ u_ret.tag = "none" <=> u_ret.crumbs = <<>>

\* C7: no call of extract_any_taxonomy (APP_CATALOG.py) or of
\* extract_breadcrumb_from_html (APP_Catalog.py) lets an exception out,
\* whatever the shape of the structured data of the page.
C7_SubParsersNeverRaise ==
    (u_fn \in {"extract_any_taxonomy", "extract_breadcrumb_from_html"} /\ u_calls = 1)
        => u_ret.st = "ret"

\* C8: session_get, of either program, returns a response exactly when the
\* GET completed with status 200 and a non-empty body; for a network
\* exception, another status or an empty body it returns None; it never
\* raises.
C8_SessionGet ==
    (u_fn \in {"APP_CATALOG.session_get", "APP_Catalog.session_get"} /\ u_calls = 1) =>
        /\ u_ret.st = "ret"
        /\ ~u_ret.val.none <=> (u_arg.exc = "none" /\ u_arg.status = 200 /\ u_arg.len > 0)
        /\ ~u_ret.val.none =>
              /\ u_ret.val.status = u_arg.status
              /\ u_ret.val.len = u_arg.len
              /\ u_ret.val.doc = u_arg.doc

\* C8 witness: session_get has returned None for a 200 answer whose body is empty
C8_Witness ==
    /\ u_fn = "APP_CATALOG.session_get" /\ u_calls = 1
    /\ u_arg.exc = "none" /\ u_arg.status = 200 /\ u_arg.len = 0
    /\ u_ret.st = "ret" /\ u_ret.val.none

\* C9: a run is never aborted, and when it has finished the result list has
\* one row per identifier of the input, in the order of the input, whose SKU
\* is the identifier as typed and not the candidate that gave the page.
C9_OneRowPerIdentifier ==
    /\ pc # "crashed"
    /\ pc = "done" =>
          /\ Len(results) = Len(stripped_lines(raw))
          /\ \A k \in 1..Len(results) : results[k].SKU = stripped_lines(raw)[k]

\* C10: when every primary fetch for an identifier returned no content and
\* no fallback is enabled, the row of the identifier is the not-found row:
\* Catalogado "No", empty crumb fields, empty URL, mode "none", body length
\* "0" and the not-found note.
C10_NotFoundRow ==
    \A k \in 1..Len(results) : (hist[k].starved /\ ~use_playwright) =>
        /\ results[k].SKU = skus[k]
        /\ results[k].Catalogado = NO
        /\ IF variant = "APP_CATALOG"
           THEN /\ results[k].Breadcrumb_crudo = <<>>
                /\ results[k].Breadcrumb_limpio = <<>>
                /\ results[k].FuenteTaxonomia = "none"
           ELSE results[k].Breadcrumb = <<>>
        /\ results[k].URL = <<>>
        /\ results[k].Modo = "none"
        /\ results[k].HTML_len = <<"0">>
        /\ results[k].Observacion = "No encontrado / sin HTML"

\* C10 witness: both candidates of an identifier with a suffix have been
\* tried, each primary fetch returned no content, and the row is there
C10_Witness ==
    /\ ~use_playwright /\ Len(results) >= 1
    /\ hist[1].starved /\ Len(candidate_skus(skus[1])) = 2
    /\ Len(gets) = 2
    /\ results[1].Modo = "none"

\* the candidates on which the fetch has been called for the identifier, in
\* the order of the calls
TriedCands == dedupe_consecutive([k \in 1..Len(gets) |-> gets[k].cand], <<>>)

C12_OneSessionPerIdentifier ==
    /\ \A i, j \in 1..Len(gets) : gets[i].sess = gets[j].sess
    /\ nsess <= 1

\* the address names a scheme and a host
IsAbsoluteUrl(u) ==
    \/ StartsWith(u, <<"h","t","t","p","s",":","/","/">>)
    \/ StartsWith(u, <<"h","t","t","p",":","/","/">>)

\* u ends with suf
EndsWith(u, suf) == Len(u) >= Len(suf) /\ SubSeq(u, Len(u) - Len(suf) + 1, Len(u)) = suf

\* the address carries a detail-page marker
HasPdpMarker(u) ==
    \E i \in 1..Len(u) :
        \/ (i + 1 <= Len(u) /\ u[i] = "-" /\ u[i + 1] = "p")
        \/ (i + 2 <= Len(u) /\ u[i] = "/" /\ u[i + 1] = "p" /\ u[i + 2] = "/")

\* C13: resolve_first_pdp_url_from_search_html returns nothing or an
\* absolute URL of a detail page: the first anchor whose href carries a
\* detail-page marker, resolved against the site domain; the canonical link
\* only when there is no such anchor; the og:url only when the canonical
\* link is not a detail-page URL either; nothing when none of the three
\* matches.
C13_ResolveFirstPdpUrl ==
    (u_fn = "resolve_first_pdp_url_from_search_html" /\ u_calls = 1) =>
        \A nav \in {NavLinks[u_arg]} :
        \A marked \in {{k \in 1..Len(nav.anchors) : HasPdpMarker(nav.anchors[k])}} :
            /\ u_ret = <<>> \/ (IsAbsoluteUrl(u_ret) /\ HasPdpMarker(u_ret))
            /\ marked # {} =>
                  \E k \in marked :
                     /\ \A j \in marked : k <= j
                     /\ EndsWith(u_ret, Strip(nav.anchors[k]))
                     /\ ~IsAbsoluteUrl(nav.anchors[k]) => StartsWith(u_ret, DOMAIN_)
            /\ (marked = {} /\ HasPdpMarker(nav.canonical)) => u_ret = nav.canonical
            /\ (marked = {} /\ ~HasPdpMarker(nav.canonical) /\ HasPdpMarker(nav.og)) => u_ret = nav.og
            /\ (marked = {} /\ ~HasPdpMarker(nav.canonical) /\ ~HasPdpMarker(nav.og)) => u_ret = <<>>

\* position i of the bytes b lies outside every quoted field: the quote
\* characters before it are even in number
Unquoted(b, i) == Cardinality({j \in 1..(i - 1) : b[j] = "\""}) % 2 = 0

\* the elements of a set of numbers in increasing order
Sorted(S) ==
    [k \in 1..Cardinality(S) |-> CHOOSE i \in S : Cardinality({j \in S : j < i}) = k - 1]

\* a doubled quote character read as one
RECURSIVE Undouble(_)
Undouble(f) ==
    IF f = <<>> THEN <<>>
    ELSE IF Len(f) >= 2 /\ f[1] = "\"" /\ f[2] = "\"" THEN <<"\"">> \o Undouble(SubSeq(f, 3, Len(f)))
    ELSE <<Head(f)>> \o Undouble(Tail(f))

\* a field as a reader of the delimited format takes it
FieldRead(f) ==
    IF Len(f) >= 2 /\ f[1] = "\"" /\ f[Len(f)] = "\"" THEN Undouble(SubSeq(f, 2, Len(f) - 1)) ELSE f

\* the fields of the record that lies at b[from..to]: it is cut at the
\* commas outside quoted fields
FieldsRead(b, from, to) ==
    LET cuts == Sorted({i \in from..to : b[i] = "," /\ Unquoted(b, i)})
        n == Len(cuts)
    IN  [j \in 1..(n + 1) |->
            FieldRead(SubSeq(b, IF j = 1 THEN from ELSE cuts[j - 1] + 1,
                                IF j = n + 1 THEN to ELSE cuts[j] - 1))]

\* the records a reader of the delimited format finds in the bytes b: a
\* record ends at a line feed outside quoted fields, the carriage return
\* before it belonging to the terminator
CsvRecords(b) ==
    LET ends == Sorted({i \in 1..Len(b) : b[i] = "\n" /\ Unquoted(b, i)})
    IN  [k \in 1..Len(ends) |->
            FieldsRead(b, IF k = 1 THEN 1 ELSE ends[k - 1] + 1,
                          IF ends[k] > 1 /\ b[ends[k] - 1] = "\r" THEN ends[k] - 2 ELSE ends[k] - 1)]

\* how many bytes of b are the line feed
LineFeeds(b) == Cardinality({i \in 1..Len(b) : b[i] = "\n"})

\* the value of key k in row r as bytes, empty when the row lacks the key
CellBytes(r, k) ==
    IF k \notin DOMAIN r THEN <<>>
    ELSE IF k \in {"Catalogado", "FuenteTaxonomia", "Observacion", "Modo"}
         THEN encode_utf8(TextOf(r[k]))
         ELSE encode_utf8(r[k])

\* the header and one record per row, the columns being those of order
RecordsFor(rows, order) ==
    << [j \in 1..Len(order) |-> encode_utf8(ColumnText(order[j]))] >>
    \o [k \in 1..Len(rows) |-> [j \in 1..Len(order) |-> CellBytes(rows[k], order[j])]]

\* some cell of some row holds a line break
HoldsLineBreak(rows) ==
    \E k \in 1..Len(rows) : \E key \in DOMAIN rows[k] :
        key \notin {"Catalogado", "FuenteTaxonomia", "Observacion", "Modo"}
        /\ \E i \in 1..Len(rows[k][key]) : rows[k][key][i] \in {"\r", "\n"}

\* C14 (as the code has it): the export reads back as a header record
\* followed by exactly one record per result row, in result order, with the
\* columns identifier, cataloged, raw crumb trail, cleaned crumb trail,
\* source tag, URL, observation note, fetch mode, body length; a key a row
\* lacks is written as an empty field; a record is one line of the file
\* unless a cell holds a line break, which is kept inside a quoted field.
C14_CsvRecords ==
    (u_fn = "to_csv" /\ u_calls = 1) =>
        /\ u_ret # <<>> /\ u_ret[Len(u_ret)] = "\n"
        /\ CsvRecords(u_ret)
           = RecordsFor(u_arg, <<"SKU", "Catalogado", "Breadcrumb_crudo", "Breadcrumb_limpio",
                                 "FuenteTaxonomia", "URL", "Observacion", "Modo", "HTML_len">>)
        /\ ~HoldsLineBreak(u_arg) => LineFeeds(u_ret) = 1 + Len(u_arg)

\* C14 witness: two rows have been exported, the first with a label that
\* holds a line break and a label that holds a comma, the second lacking keys
C14_Witness ==
    /\ u_fn = "to_csv" /\ u_calls = 1 /\ Len(u_arg) = 2
    /\ HoldsLineBreak(<<u_arg[1]>>)
    /\ \E i \in 1..Len(u_arg[1].Breadcrumb_crudo) : u_arg[1].Breadcrumb_crudo[i] = ","
    /\ "URL" \notin DOMAIN u_arg[2]
    /\ LineFeeds(u_ret) > 3

\* C14 (as stated): the export is a header line followed by exactly one line
\* per result row, in result order, with the columns identifier, cataloged,
\* raw crumb trail, cleaned crumb trail, source tag, URL, fetch mode,
\* observation note, body length; a key a row lacks is written as an empty
\* field.
C14_CsvLinesFetchModeFirst ==
    (u_fn = "to_csv" /\ u_calls = 1) =>
        /\ LineFeeds(u_ret) = 1 + Len(u_arg)
        /\ CsvRecords(u_ret)
           = RecordsFor(u_arg, <<"SKU", "Catalogado", "Breadcrumb_crudo", "Breadcrumb_limpio",
                                 "FuenteTaxonomia", "URL", "Modo", "Observacion", "HTML_len">>)

\* the separators of a category string
CategorySeparators == {">", "/", "|", "rsaquo", "raquo", "-"}

\* the segments of s between its separator characters, each one trimmed, in
\* the order of s, the empty ones left out
Segments(s) ==
    LET cuts == Sorted({i \in 1..Len(s) : s[i] \in CategorySeparators})
        n == Len(cuts)
        pieces == [j \in 1..(n + 1) |->
                      Strip(SubSeq(s, IF j = 1 THEN 1 ELSE cuts[j - 1] + 1,
                                      IF j = n + 1 THEN Len(s) ELSE cuts[j] - 1))]
    IN  SelectSeq(pieces, LAMBDA x : x # <<>>)

\* C15: the labels a category string is turned into are its non-empty
\* trimmed segments between the separators > / | rsaquo raquo and hyphen, in
\* their order (Moda/Mujer/Bottoms gives Moda, Mujer, Bottoms); when no
\* segment is left the list is the single original string; so the list
\* returned with the tag jsonld_product or datalayer is never empty.
C15_CategorySegments ==
    /\ (u_fn = "category_parts" /\ u_calls = 1) =>
          \A segs \in {Segments(u_arg)} :
             /\ u_ret = (IF segs # <<>> THEN segs ELSE <<u_arg>>)
             /\ u_ret # <<>>
             /\ u_arg = s_Moda \o <<"/">> \o s_Mujer \o <<"/">> \o s_Bottoms
                   => u_ret = <<s_Moda, s_Mujer, s_Bottoms>>
    /\ (u_fn = "extract_any_taxonomy" /\ u_calls = 1 /\ u_ret.st = "ret") =>
          /\ u_ret.tag \in {"jsonld_product", "datalayer"} => u_ret.crumbs # <<>>
          /\ u_ret.tag = "jsonld_product" =>
                \A cat \in {extract_product_category_from_jsonld(PageAt(u_arg)).val} :
                    u_ret.crumbs = (IF Segments(cat) # <<>> THEN Segments(cat) ELSE <<cat>>)
          /\ u_ret.tag = "datalayer" =>
                \A dl \in {extract_category_from_datalayer(PageAt(u_arg))} :
                    u_ret.crumbs = (IF Segments(dl) # <<>> THEN Segments(dl) ELSE <<dl>>)

\* C15 witness: Moda/Mujer/Bottoms has been split into Moda, Mujer, Bottoms
C15_Witness ==
    /\ u_fn = "category_parts" /\ u_calls = 1
    /\ u_arg = s_Moda \o <<"/">> \o s_Mujer \o <<"/">> \o s_Bottoms
    /\ u_ret = <<s_Moda, s_Mujer, s_Bottoms>>

C17_TwoRowShapes ==
    variant = "APP_CATALOG" =>
        \A k \in 1..Len(results) :
            LET r == results[k]
                h == hist[k]
                not_found == /\ r.Modo = "none"
                             /\ r.FuenteTaxonomia = "none"
                             /\ h.raw = <<>> /\ r.Breadcrumb_crudo = <<>>
                             /\ r.URL = <<>>
                             /\ r.HTML_len = <<"0">>
                fetched == /\ r.Modo = "requests+cookies"
                           /\ r.FuenteTaxonomia # "none"
                           /\ h.raw # <<>> /\ r.Breadcrumb_crudo = Join(CrumbSep, h.raw)
                           /\ r.URL # <<>>
                           /\ r.HTML_len # <<>> /\ r.HTML_len[1] \in {"1","2","3","4","5","6","7","8","9"}
            IN  /\ not_found \/ fetched
                /\ ~(not_found /\ fetched)
                /\ h.fetched <=> fetched

\* C17 witness: a run of APP_CATALOG.py with a row of each shape, the
\* not-found one for an identifier whose search was answered with a page
C17_Witness ==
    /\ variant = "APP_CATALOG" /\ Len(results) = 2
    /\ hist[1].fetched /\ results[1].Modo = "requests+cookies"
    /\ ~hist[2].fetched /\ ~hist[2].starved /\ results[2].Modo = "none"

====
